---- MODULE Spec2Model ----
(***************************************************************************)
(* Positional codec (client/src/serde.rs) and storage engine               *)
(* (client/src/storage.rs) of uckb-jsonrpc-sdk.                            *)
(*                                                                         *)
(* A block is serialized leaf by leaf into one byte buffer; a BlockIndex   *)
(* of (offset, length) Positions is derived from the leaf sizes; the       *)
(* storage engine keeps buffer, index and secondary indices in nine        *)
(* tables of one transactional key-value environment.                      *)
(*                                                                         *)
(* Bytes are naturals below 256, byte strings are sequences of bytes.      *)
(* Option<T> is <<>> (None) or <<v>> (Some(v)).  A Result is a record      *)
(* whose field st is "Ok", "Err" or "Panic".                               *)
(***************************************************************************)
EXTENDS Integers, Sequences, FiniteSets, TLC

VARIABLES
    env,       \* the environment: its nine tables, each a function key -> Value
    last,      \* the last storage operation: its name, argument and result
    nops,      \* the number of storage operations called so far
    codec_in,  \* the block handed to the codec
    codec_out, \* what serialize_block_with_index returned for codec_in
    codec_dec, \* the last decode made on codec_out
    txn,       \* the calls in progress and the transactions they hold open
    opened,    \* the environments of the Manager and the Storage values opened
    tcp,       \* the TCP client: its session map, its calls and the spawned tasks
    retry      \* an until_ok call: its limit, its counter and its outcome

vars == <<env, last, nops, codec_in, codec_out, codec_dec, txn, opened, tcp, retry>>

----------------------------------------------------------------------------
(* Widths fixed by the program's types. *)

U64Len == 8
U32Len == 4
HashLen == 32
ShortIdLen == 10

(* Bounds of the model. *)

\* longest list of deps, inputs, outputs, witnesses or proposals of a block
\* handed to the codec alone
MaxItems == 1
\* most uncles in a block
MaxUncles == 1
\* highest block number handed to insert_block
MaxNumber == 1
\* most transactions in a block handed to insert_block
MaxTxs == 2
\* most outputs of a transaction handed to insert_block
MaxOutputs == 1
\* most storage operations called in one run
MaxOps == 2

----------------------------------------------------------------------------
(* Options, results, sequences. *)

None == <<>>
Some(v) == <<v>>
Ok(v) == [st |-> "Ok", val |-> v]
Err == [st |-> "Err", val |-> <<>>]
Panic == [st |-> "Panic", val |-> <<>>]

SeqUpTo(S, n) == UNION {[1..k -> S] : k \in 0..n}

RECURSIVE Concat(_)
Concat(ss) == IF ss = <<>> THEN <<>> ELSE Head(ss) \o Concat(Tail(ss))

\* The status of the first result of rs that is not Ok ("Ok" when all are):
\* what a chain of `?` or a collect into a Result stops at.
FirstBad(rs) ==
    LET bad == {i \in DOMAIN rs : rs[i].st # "Ok"}
    IN  IF bad = {} THEN "Ok"
        ELSE rs[CHOOSE i \in bad : \A j \in bad : i <= j].st

Vals(rs) == [i \in DOMAIN rs |-> rs[i].val]

----------------------------------------------------------------------------
(* Fixed-width little-endian integers. *)

RECURSIVE to_le_bytes(_, _)
to_le_bytes(n, w) ==
    IF w = 0 THEN <<>> ELSE <<n % 256>> \o to_le_bytes(n \div 256, w - 1)

RECURSIVE from_le_bytes(_)
from_le_bytes(s) ==
    IF s = <<>> THEN 0 ELSE s[1] + 256 * from_le_bytes(Tail(s))

as_bytes(h) == to_le_bytes(h, HashLen)

----------------------------------------------------------------------------
(* bincode, as the codec uses it: fixed-width little-endian integers, a    *)
(* one-byte tag before an Option, a u64 length before a byte string, the   *)
(* fields of a struct one after the other.  The leaf types of a block:     *)
(*   "H256"            a hash, a number standing for its 32 bytes          *)
(*   "Header"          [number, timestamp]                                 *)
(*   "Version"         a u32                                               *)
(*   "OutPoint"        [cell: Option([tx_hash, index])]                    *)
(*   "CellInput"       [previous_output: OutPoint, since]                  *)
(*   "CellOutput"      [capacity, data: byte string]                       *)
(*   "Witness"         [data: byte string]                                 *)
(*   "ProposalShortId" a number standing for its 10 bytes                  *)

ser_bytes(d) == to_le_bytes(Len(d), U64Len) \o d

ser_OutPoint(p) ==
    IF p.cell = None THEN <<0>>
    ELSE <<1>> \o as_bytes(p.cell[1].tx_hash) \o to_le_bytes(p.cell[1].index, U32Len)

\* config.serialize_into(w, data): the bytes appended to w
serialize(kind, data) ==
    CASE kind = "H256" -> as_bytes(data)
      [] kind = "Header" ->
            to_le_bytes(data.number, U64Len) \o to_le_bytes(data.timestamp, U64Len)
      [] kind = "Version" -> to_le_bytes(data, U32Len)
      [] kind = "OutPoint" -> ser_OutPoint(data)
      [] kind = "CellInput" ->
            ser_OutPoint(data.previous_output) \o to_le_bytes(data.since, U64Len)
      [] kind = "CellOutput" ->
            to_le_bytes(data.capacity, U64Len) \o ser_bytes(data.data)
      [] kind = "Witness" -> ser_bytes(data.data)
      [] kind = "ProposalShortId" -> to_le_bytes(data, ShortIdLen)

size_OutPoint(p) == IF p.cell = None THEN 1 ELSE 1 + HashLen + U32Len

\* config.serialized_size(data): the size probe, which counts and writes nothing
serialized_size(kind, data) ==
    CASE kind = "H256" -> HashLen
      [] kind = "Header" -> U64Len + U64Len
      [] kind = "Version" -> U32Len
      [] kind = "OutPoint" -> size_OutPoint(data)
      [] kind = "CellInput" -> size_OutPoint(data.previous_output) + U64Len
      [] kind = "CellOutput" -> U64Len + U64Len + Len(data.data)
      [] kind = "Witness" -> U64Len + Len(data.data)
      [] kind = "ProposalShortId" -> ShortIdLen

serialized_sizes(kind, items) == [i \in DOMAIN items |-> serialized_size(kind, items[i])]

de_bytes(s) ==
    IF Len(s) < U64Len THEN Err
    ELSE LET n == from_le_bytes(SubSeq(s, 1, U64Len))
         IN  IF Len(s) < U64Len + n THEN Err
             ELSE Ok(SubSeq(s, U64Len + 1, U64Len + n))

de_OutPoint(s) ==
    IF Len(s) < 1 THEN Err
    ELSE IF s[1] = 0 THEN Ok([cell |-> None])
    ELSE IF s[1] # 1 \/ Len(s) < 1 + HashLen + U32Len THEN Err
    ELSE Ok([cell |-> Some([tx_hash |-> from_le_bytes(SubSeq(s, 2, 1 + HashLen)),
                            index |-> from_le_bytes(SubSeq(s, 2 + HashLen,
                                                           1 + HashLen + U32Len))])])

\* config.deserialize(slice): reads a value from the front of the slice; a
\* slice that ends too early is an error, bytes left over are not
bincode_deserialize(kind, s) ==
    CASE kind = "H256" ->
            IF Len(s) < HashLen THEN Err ELSE Ok(from_le_bytes(SubSeq(s, 1, HashLen)))
      [] kind = "Header" ->
            IF Len(s) < U64Len + U64Len THEN Err
            ELSE Ok([number |-> from_le_bytes(SubSeq(s, 1, U64Len)),
                     timestamp |-> from_le_bytes(SubSeq(s, U64Len + 1, U64Len + U64Len))])
      [] kind = "Version" ->
            IF Len(s) < U32Len THEN Err ELSE Ok(from_le_bytes(SubSeq(s, 1, U32Len)))
      [] kind = "OutPoint" -> de_OutPoint(s)
      [] kind = "CellInput" ->
            LET p == de_OutPoint(s)
            IN  IF p.st # "Ok" THEN Err
                ELSE LET u == size_OutPoint(p.val)
                     IN  IF Len(s) < u + U64Len THEN Err
                         ELSE Ok([previous_output |-> p.val,
                                  since |-> from_le_bytes(SubSeq(s, u + 1, u + U64Len))])
      [] kind = "CellOutput" ->
            IF Len(s) < U64Len THEN Err
            ELSE LET d == de_bytes(SubSeq(s, U64Len + 1, Len(s)))
                 IN  IF d.st # "Ok" THEN Err
                     ELSE Ok([capacity |-> from_le_bytes(SubSeq(s, 1, U64Len)),
                              data |-> d.val])
      [] kind = "Witness" ->
            LET d == de_bytes(s) IN IF d.st # "Ok" THEN Err ELSE Ok([data |-> d.val])
      [] kind = "ProposalShortId" ->
            IF Len(s) < ShortIdLen THEN Err
            ELSE Ok(from_le_bytes(SubSeq(s, 1, ShortIdLen)))

----------------------------------------------------------------------------
(* Size pass. *)

serialized_uncle_block_size(uncle) ==
    [hash |-> serialized_size("H256", uncle.header.hash),
     header |-> serialized_size("Header", uncle.header.inner),
     proposals |-> serialized_sizes("ProposalShortId", uncle.proposals)]

serialized_transaction_size(tx_view) ==
    [hash |-> serialized_size("H256", tx_view.hash),
     version |-> serialized_size("Version", tx_view.inner.version),
     deps |-> serialized_sizes("OutPoint", tx_view.inner.deps),
     inputs |-> serialized_sizes("CellInput", tx_view.inner.inputs),
     outputs |-> serialized_sizes("CellOutput", tx_view.inner.outputs),
     witnesses |-> serialized_sizes("Witness", tx_view.inner.witnesses)]

serialized_block_size(block) ==
    [hash |-> serialized_size("H256", block.header.hash),
     header |-> serialized_size("Header", block.header.inner),
     uncles |-> [i \in DOMAIN block.uncles |->
                    serialized_uncle_block_size(block.uncles[i])],
     transactions |-> [i \in DOMAIN block.transactions |->
                          serialized_transaction_size(block.transactions[i])],
     proposals |-> serialized_sizes("ProposalShortId", block.proposals)]

----------------------------------------------------------------------------
(* Index pass.  Each calculate_* returns <<running offset, index>>. *)

Position(offset, length) == [offset |-> offset, length |-> length]

\* a layout that leaves one byte of padding after every field
calculate_position_padded(offset, length) ==
    <<offset + length + 1, Position(offset, length)>>

\* a layout in which every field starts on the last byte of the one before
calculate_position_overlapping(offset, length) ==
    <<offset + length - 1, Position(offset, length)>>

calculate_position(offset, length) == <<offset + length, Position(offset, length)>>

RECURSIVE calculate_positions(_, _)
calculate_positions(offset, lengths) ==
    IF lengths = <<>> THEN <<offset, <<>>>>
    ELSE LET p == calculate_position(offset, Head(lengths))
             r == calculate_positions(p[1], Tail(lengths))
         IN  <<r[1], <<p[2]>> \o r[2]>>

calculate_uncle_block_index(offset, uncle) ==
    LET hash == calculate_position(offset, uncle.hash)
        header == calculate_position(hash[1], uncle.header)
        proposals == calculate_positions(header[1], uncle.proposals)
    IN  <<proposals[1],
          [hash |-> hash[2], header |-> header[2], proposals |-> proposals[2]]>>

calculate_transaction_index(offset, tx) ==
    LET hash == calculate_position(offset, tx.hash)
        version == calculate_position(hash[1], tx.version)
        deps == calculate_positions(version[1], tx.deps)
        inputs == calculate_positions(deps[1], tx.inputs)
        outputs == calculate_positions(inputs[1], tx.outputs)
        witnesses == calculate_positions(outputs[1], tx.witnesses)
    IN  <<witnesses[1],
          [hash |-> hash[2], version |-> version[2], deps |-> deps[2],
           inputs |-> inputs[2], outputs |-> outputs[2], witnesses |-> witnesses[2]]>>

\* the fold over the uncle sizes
RECURSIVE calculate_uncle_indexes(_, _)
calculate_uncle_indexes(offset, sizes) ==
    IF sizes = <<>> THEN <<offset, <<>>>>
    ELSE LET p == calculate_uncle_block_index(offset, Head(sizes))
             r == calculate_uncle_indexes(p[1], Tail(sizes))
         IN  <<r[1], <<p[2]>> \o r[2]>>

\* the fold over the transaction sizes
RECURSIVE calculate_transaction_indexes(_, _)
calculate_transaction_indexes(offset, sizes) ==
    IF sizes = <<>> THEN <<offset, <<>>>>
    ELSE LET p == calculate_transaction_index(offset, Head(sizes))
             r == calculate_transaction_indexes(p[1], Tail(sizes))
         IN  <<r[1], <<p[2]>> \o r[2]>>

calculate_block_index(block) ==
    LET hash == calculate_position(0, block.hash)
        header == calculate_position(hash[1], block.header)
        uncs == calculate_uncle_indexes(header[1], block.uncles)
        trans == calculate_transaction_indexes(uncs[1], block.transactions)
        proposals == calculate_positions(trans[1], block.proposals)
    IN  <<proposals[1],
          [hash |-> hash[2], header |-> header[2], uncles |-> uncs[2],
           transactions |-> trans[2], proposals |-> proposals[2]]>>

----------------------------------------------------------------------------
(* Serialize pass. *)

serialize_many(bytes, kind, items) ==
    bytes \o Concat([i \in DOMAIN items |-> serialize(kind, items[i])])

serialize_uncle_block(bytes, uncle) ==
    serialize_many(bytes \o serialize("H256", uncle.header.hash)
                         \o serialize("Header", uncle.header.inner),
                   "ProposalShortId", uncle.proposals)

serialize_transaction(bytes, tx_view) ==
    LET tx == tx_view.inner
        b0 == bytes \o serialize("H256", tx_view.hash) \o serialize("Version", tx.version)
        b1 == serialize_many(b0, "OutPoint", tx.deps)
        b2 == serialize_many(b1, "CellInput", tx.inputs)
        b3 == serialize_many(b2, "CellOutput", tx.outputs)
    IN  serialize_many(b3, "Witness", tx.witnesses)

serialize_block(bytes, block) ==
    LET b0 == bytes \o serialize("H256", block.header.hash)
                    \o serialize("Header", block.header.inner)
        b1 == b0 \o Concat([i \in DOMAIN block.uncles |->
                               serialize_uncle_block(<<>>, block.uncles[i])])
        b2 == b1 \o Concat([i \in DOMAIN block.transactions |->
                               serialize_transaction(<<>>, block.transactions[i])])
    IN  serialize_many(b2, "ProposalShortId", block.proposals)

----------------------------------------------------------------------------
(* The BlockIndex under bincode: every offset, length and Vec length is a  *)
(* u64 word; a struct is its fields in order, a Vec its length and items.  *)

words_Positions(ps) ==
    <<Len(ps)>> \o Concat([i \in DOMAIN ps |-> <<ps[i].offset, ps[i].length>>])

words_UncleBlockIndex(u) ==
    <<u.hash.offset, u.hash.length, u.header.offset, u.header.length>>
    \o words_Positions(u.proposals)

words_TransactionIndex(t) ==
    <<t.hash.offset, t.hash.length, t.version.offset, t.version.length>>
    \o words_Positions(t.deps) \o words_Positions(t.inputs)
    \o words_Positions(t.outputs) \o words_Positions(t.witnesses)

words_BlockIndex(b) ==
    <<b.hash.offset, b.hash.length, b.header.offset, b.header.length>>
    \o <<Len(b.uncles)>>
    \o Concat([i \in DOMAIN b.uncles |-> words_UncleBlockIndex(b.uncles[i])])
    \o <<Len(b.transactions)>>
    \o Concat([i \in DOMAIN b.transactions |->
                  words_TransactionIndex(b.transactions[i])])
    \o words_Positions(b.proposals)

\* config.serialize(&block_index)
serialize_index(block_index) ==
    LET ws == words_BlockIndex(block_index)
    IN  Concat([i \in DOMAIN ws |-> to_le_bytes(ws[i], U64Len)])

\* the complete u64 words at the front of a byte string
to_words(bytes) ==
    [i \in 1..(Len(bytes) \div U64Len) |->
        from_le_bytes(SubSeq(bytes, (i - 1) * U64Len + 1, i * U64Len))]

\* A reader is [pos, vals]: the cursor into the words w and the values read
\* so far; pos = 0 once the words ran out.
ReadFail == [pos |-> 0, vals |-> <<>>]
Reader(c) == [pos |-> c, vals |-> <<>>]
Push(r, pos, val) == [pos |-> pos, vals |-> Append(r.vals, val)]

\* offset, then length
read_Position(w, r) ==
    IF r.pos = 0 \/ r.pos + 1 > Len(w) THEN ReadFail
    ELSE Push(r, r.pos + 2, Position(w[r.pos], w[r.pos + 1]))

\* the value made of the fields read in order
Make(kind, vals) ==
    CASE kind = "Vec" -> vals
      [] kind = "UncleBlockIndex" ->
            [hash |-> vals[1], header |-> vals[2], proposals |-> vals[3]]
      [] kind = "TransactionIndex" ->
            [hash |-> vals[1], version |-> vals[2], deps |-> vals[3],
             inputs |-> vals[4], outputs |-> vals[5], witnesses |-> vals[6]]
      [] kind = "BlockIndex" ->
            [hash |-> vals[1], header |-> vals[2], uncles |-> vals[3],
             transactions |-> vals[4], proposals |-> vals[5]]

\* the fields read by inner are one value read by outer
Pack(kind, outer, inner) ==
    IF inner.pos = 0 THEN ReadFail
    ELSE Push(outer, inner.pos, Make(kind, inner.vals))

RECURSIVE read_item(_, _, _)
RECURSIVE read_items(_, _, _, _)

\* a Vec: its length, then its items
read_Vec(kind, w, r) ==
    IF r.pos = 0 \/ r.pos > Len(w) THEN ReadFail
    ELSE IF w[r.pos] > Len(w) THEN ReadFail
    ELSE Pack("Vec", r, read_items(kind, w, Reader(r.pos + 1), w[r.pos]))

read_items(kind, w, r, n) ==
    IF n = 0 \/ r.pos = 0 THEN r
    ELSE read_items(kind, w, read_item(kind, w, r), n - 1)

read_item(kind, w, r) ==
    CASE kind = "Position" -> read_Position(w, r)
      [] kind = "UncleBlockIndex" ->
            Pack(kind, r,
                 read_Vec("Position", w,
                 read_Position(w,
                 read_Position(w, Reader(r.pos)))))
      [] kind = "TransactionIndex" ->
            Pack(kind, r,
                 read_Vec("Position", w,
                 read_Vec("Position", w,
                 read_Vec("Position", w,
                 read_Vec("Position", w,
                 read_Position(w,
                 read_Position(w, Reader(r.pos))))))))

read_BlockIndex(w) ==
    read_Vec("Position", w,
    read_Vec("TransactionIndex", w,
    read_Vec("UncleBlockIndex", w,
    read_Position(w,
    read_Position(w, Reader(1))))))

\* config.deserialize(block_index_bytes) as a BlockIndex
deserialize_index(bytes) ==
    \* an eager binding: the reader is computed once
    CHOOSE res \in {IF r.pos = 0 THEN Err ELSE Ok(Make("BlockIndex", r.vals)) :
                       r \in {read_BlockIndex(to_words(bytes))}} : TRUE

\* a serializer without the assert_eq, whose buffer lacks its last byte
serialize_block_with_index_unchecked(block) ==
    LET block_size == serialized_block_size(block)
        li == calculate_block_index(block_size)
        block_bytes == serialize_block(<<>>, block)
    IN  Ok([block_bytes |-> SubSeq(block_bytes, 1, Len(block_bytes) - 1),
            index_bytes |-> serialize_index(li[2])])

\* serialize_block_with_index returns <<block bytes, index bytes>>; the
\* assert_eq on the two lengths panics
serialize_block_with_index(block) ==
    LET block_size == serialized_block_size(block)
        li == calculate_block_index(block_size)
        block_bytes == serialize_block(<<>>, block)
    IN  IF li[1] # Len(block_bytes) THEN Panic
        ELSE Ok([block_bytes |-> block_bytes, index_bytes |-> serialize_index(li[2])])

----------------------------------------------------------------------------
(* Partial and full decoding. *)

\* a slice that takes the length for the end of the range
deserialize_end_is_length(kind, bytes, position) ==
    IF position.length > Len(bytes) THEN Panic
    ELSE bincode_deserialize(kind, SubSeq(bytes, position.offset + 1, position.length))

\* &bytes[offset..offset + length] panics when the range leaves the buffer
deserialize(kind, bytes, position) ==
    IF position.offset + position.length > Len(bytes) THEN Panic
    ELSE bincode_deserialize(kind, SubSeq(bytes, position.offset + 1,
                                          position.offset + position.length))

\* the results of decodes made one after the other, each followed by `?`
collect(rs) ==
    IF FirstBad(rs) # "Ok" THEN [st |-> FirstBad(rs), val |-> <<>>]
    ELSE Ok(Vals(rs))

\* the view made of the decoded fields
View(kind, fields) ==
    CASE kind = "UncleBlockView" ->
            [header |-> [hash |-> fields[1], inner |-> fields[2]],
             proposals |-> fields[3]]
      [] kind = "TransactionView" ->
            [hash |-> fields[1],
             inner |-> [version |-> fields[2], deps |-> fields[3],
                        inputs |-> fields[4], outputs |-> fields[5],
                        witnesses |-> fields[6]]]
      [] kind = "BlockView" ->
            [header |-> [hash |-> fields[1], inner |-> fields[2]],
             uncles |-> fields[3], transactions |-> fields[4],
             proposals |-> fields[5]]

build(kind, r) == IF r.st # "Ok" THEN r ELSE Ok(View(kind, r.val))

deserialize_many(kind, bytes, positions) ==
    collect([i \in DOMAIN positions |-> deserialize(kind, bytes, positions[i])])

deserialize_uncle_block(bytes, index) ==
    build("UncleBlockView",
          collect(<<deserialize("H256", bytes, index.hash),
                    deserialize("Header", bytes, index.header),
                    deserialize_many("ProposalShortId", bytes, index.proposals)>>))

\* a decoder that reads the deps at the Positions of the inputs
deserialize_transaction_deps_at_inputs(bytes, index) ==
    build("TransactionView",
          collect(<<deserialize("H256", bytes, index.hash),
                    deserialize("Version", bytes, index.version),
                    deserialize_many("OutPoint", bytes, index.inputs),
                    deserialize_many("CellInput", bytes, index.inputs),
                    deserialize_many("CellOutput", bytes, index.outputs),
                    deserialize_many("Witness", bytes, index.witnesses)>>))

deserialize_transaction(bytes, index) ==
    build("TransactionView",
          collect(<<deserialize("H256", bytes, index.hash),
                    deserialize("Version", bytes, index.version),
                    deserialize_many("OutPoint", bytes, index.deps),
                    deserialize_many("CellInput", bytes, index.inputs),
                    deserialize_many("CellOutput", bytes, index.outputs),
                    deserialize_many("Witness", bytes, index.witnesses)>>))

deserialize_block(bytes, index) ==
    build("BlockView",
          collect(<<deserialize("H256", bytes, index.hash),
                    deserialize("Header", bytes, index.header),
                    collect([i \in DOMAIN index.uncles |->
                                deserialize_uncle_block(bytes, index.uncles[i])]),
                    collect([i \in DOMAIN index.transactions |->
                                deserialize_transaction(bytes, index.transactions[i])]),
                    deserialize_many("ProposalShortId", bytes, index.proposals)>>))

----------------------------------------------------------------------------
(* The codec on its own: a block is drawn, serialized with its index, and  *)
(* decoded as a whole or at one Position.                                  *)

CodecOutPoints == {[cell |-> None], [cell |-> Some([tx_hash |-> 2, index |-> 1])]}
CodecInputs == {[previous_output |-> [cell |-> Some([tx_hash |-> 2, index |-> 0])],
                 since |-> 6]}
CodecOutputs == {[capacity |-> 5, data |-> d] : d \in {<<>>, <<7>>}}
CodecWitnesses == {[data |-> <<9, 9>>]}
CodecProposals == {3}
CodecTransactions ==
    [hash : {2},
     inner : [version : {1},
              deps : SeqUpTo(CodecOutPoints, MaxItems),
              inputs : SeqUpTo(CodecInputs, MaxItems),
              outputs : SeqUpTo(CodecOutputs, MaxItems),
              witnesses : SeqUpTo(CodecWitnesses, MaxItems)]]
CodecUncles ==
    [header : [hash : {4}, inner : {[number |-> 0, timestamp |-> 8]}],
     proposals : SeqUpTo(CodecProposals, MaxItems)]
CodecBlocks ==
    [header : [hash : {1}, inner : {[number |-> 1, timestamp |-> 300]}],
     uncles : SeqUpTo(CodecUncles, MaxUncles),
     transactions : SeqUpTo(CodecTransactions, MaxTxs),
     proposals : SeqUpTo(CodecProposals, MaxItems)]

NoTable == <<>>
NoOp == [op |-> "none", arg |-> <<>>, res |-> Ok(None)]
NoDec == [op |-> "none", at |-> <<>>, res |-> Err]

\* no environment opened, no TCP client at work, no until_ok call
NoOpened == [manager |-> <<>>, envs |-> <<>>, pending |-> <<>>, storages |-> <<>>]
NoTcp == [sess |-> {}, calls |-> <<>>, tasks |-> <<>>, dropped |-> FALSE]
NoRetry == [pc |-> "idle", limit_times |-> 0, cnt |-> 0, runs |-> <<>>, result |-> None]
OthersIdle ==
    /\ opened = NoOpened
    /\ tcp = NoTcp
    /\ retry = NoRetry

\* no call in progress, no Writer and no Reader open
NoTxn == [wcall |-> None, writer |-> None, rcall |-> None, reader |-> None]

\* the nine stores, empty
NoStores ==
    [indexes |-> NoTable, blocks |-> NoTable, hashes |-> NoTable,
     numbers |-> NoTable, uncles |-> NoTable, txs |-> NoTable,
     cells |-> NoTable, status |-> NoTable, custom |-> NoTable]

\* Storage::initial on a fresh path: the nine stores are created empty
StorageInit ==
    /\ env = NoStores
    /\ last = NoOp
    /\ nops = 0
    /\ txn = NoTxn
    /\ OthersIdle

CodecInit ==
    /\ StorageInit
    /\ codec_in \in CodecBlocks
    /\ codec_out = None
    /\ codec_dec = NoDec

CodecSerialize ==
    /\ codec_out = None
    /\ codec_out' = Some(serialize_block_with_index(codec_in))
    /\ UNCHANGED <<env, last, nops, codec_in, codec_dec, txn, opened, tcp, retry>>

\* The buffer and the decoded index of a successful serialization, as a set
\* of at most one pair <<bytes, index>>.
CodecPair ==
    IF codec_out = None \/ codec_out[1].st # "Ok" THEN {}
    ELSE {<<codec_out[1].val.block_bytes, r.val>> :
            r \in {x \in {deserialize_index(codec_out[1].val.index_bytes)} : x.st = "Ok"}}

CodecDecoded(op, at, res) ==
    /\ codec_dec' = [op |-> op, at |-> at, res |-> res]
    /\ UNCHANGED <<env, last, nops, codec_in, codec_out, txn, opened, tcp, retry>>

CodecDeserializeBlock ==
    \E p \in CodecPair :
        CodecDecoded("block", <<>>, deserialize_block(p[1], p[2]))

CodecDeserializeUncle ==
    \E p \in CodecPair :
        \E i \in DOMAIN p[2].uncles :
            CodecDecoded("uncle", <<i>>, deserialize_uncle_block(p[1], p[2].uncles[i]))

CodecDeserializeTransaction ==
    \E p \in CodecPair :
        \E i \in DOMAIN p[2].transactions :
            CodecDecoded("transaction", <<i>>,
                         deserialize_transaction(p[1], p[2].transactions[i]))

CodecDeserializeProposal ==
    \E p \in CodecPair :
        \E i \in DOMAIN p[2].proposals :
            CodecDecoded("proposal", <<i>>,
                         deserialize("ProposalShortId", p[1], p[2].proposals[i]))

CodecDeserializeCellOutput ==
    \E p \in CodecPair :
        \E i \in DOMAIN p[2].transactions :
            \E j \in DOMAIN p[2].transactions[i].outputs :
                CodecDecoded("cell_output", <<i, j>>,
                             deserialize("CellOutput", p[1],
                                         p[2].transactions[i].outputs[j]))

CodecNext ==
    \/ CodecSerialize
    \/ CodecDeserializeBlock
    \/ CodecDeserializeUncle
    \/ CodecDeserializeTransaction
    \/ CodecDeserializeProposal
    \/ CodecDeserializeCellOutput

SpecCodec == CodecInit /\ [][CodecNext]_vars

----------------------------------------------------------------------------
(* Properties of the codec. *)

\* C1: decoding the whole buffer with the index serialized beside it gives
\* back the block that was serialized.
C1_RoundTrip ==
    codec_dec.op = "block" =>
        /\ codec_dec.res.st = "Ok"
        /\ codec_dec.res.val = codec_in

C1_Witness ==
    /\ codec_dec.op = "block"
    /\ codec_dec.res.st = "Ok"
    /\ Len(codec_in.uncles) = 1
    /\ Len(codec_in.transactions) = 2
    /\ codec_in.transactions[1].inner.outputs # <<>>
    /\ codec_in.transactions[1].inner.deps # <<>>
    /\ codec_in.transactions[2].inner.inputs = <<>>
    /\ codec_in.proposals # <<>>

\* C2: decoding at the index of one transaction, one uncle, one proposal or
\* one cell output gives that transaction, uncle, proposal or cell output.
C2_PartialRoundTrip ==
    /\ codec_dec.op = "transaction" =>
          /\ codec_dec.res.st = "Ok"
          /\ codec_dec.res.val = codec_in.transactions[codec_dec.at[1]]
    /\ codec_dec.op = "uncle" =>
          /\ codec_dec.res.st = "Ok"
          /\ codec_dec.res.val = codec_in.uncles[codec_dec.at[1]]
    /\ codec_dec.op = "proposal" =>
          /\ codec_dec.res.st = "Ok"
          /\ codec_dec.res.val = codec_in.proposals[codec_dec.at[1]]
    /\ codec_dec.op = "cell_output" =>
          /\ codec_dec.res.st = "Ok"
          /\ codec_dec.res.val =
                codec_in.transactions[codec_dec.at[1]].inner.outputs[codec_dec.at[2]]

C2_Witness ==
    /\ codec_dec.op = "transaction"
    /\ codec_dec.at = <<2>>
    /\ codec_dec.res.st = "Ok"
    /\ codec_in.transactions[2] # codec_in.transactions[1]
    /\ codec_in.transactions[2].inner.deps # <<>>
    /\ codec_in.transactions[2].inner.outputs # <<>>

\* the Positions of an index in the order the fields are serialized
PositionsOfUncle(u) == <<u.hash, u.header>> \o u.proposals
PositionsOfTransaction(t) ==
    <<t.hash, t.version>> \o t.deps \o t.inputs \o t.outputs \o t.witnesses
PositionsOfBlock(b) ==
    <<b.hash, b.header>>
    \o Concat([i \in DOMAIN b.uncles |-> PositionsOfUncle(b.uncles[i])])
    \o Concat([i \in DOMAIN b.transactions |->
                  PositionsOfTransaction(b.transactions[i])])
    \o b.proposals

Contiguous(ps, total) ==
    /\ ps[1].offset = 0
    /\ \A k \in 1..(Len(ps) - 1) : ps[k].offset + ps[k].length = ps[k + 1].offset
    /\ ps[Len(ps)].offset + ps[Len(ps)].length = total

\* C10: the Positions of a block's index are contiguous from offset 0, and
\* the running offset after the last one is the length of the buffer.
C10_IndexContiguous ==
    codec_out # None =>
        \A li \in {calculate_block_index(serialized_block_size(codec_in))} :
            /\ Contiguous(PositionsOfBlock(li[2]), li[1])
            /\ li[1] = Len(serialize_block(<<>>, codec_in))

C10_Witness ==
    /\ codec_out # None
    /\ codec_out[1].st = "Ok"
    /\ Len(codec_in.uncles) = 1
    /\ codec_in.uncles[1].proposals # <<>>
    /\ Len(codec_in.transactions) = 2
    /\ codec_in.transactions[1].inner.witnesses # <<>>
    /\ codec_in.transactions[2].inner.outputs # <<>>
    /\ codec_in.proposals # <<>>

\* every Position ends inside a buffer of length total, and each one starts
\* after its predecessor starts and not before it ends
InBoundsAndDisjoint(ps, total) ==
    /\ \A k \in DOMAIN ps : ps[k].offset + ps[k].length <= total
    /\ \A k \in 1..(Len(ps) - 1) :
           /\ ps[k].offset < ps[k + 1].offset
           /\ ps[k].offset + ps[k].length <= ps[k + 1].offset

\* C11: for every Position of a block's index offset + length is at most the
\* length of the block's buffer, and the Positions, taken in serialization
\* order, have strictly increasing offsets and do not overlap.
C11_PositionsInBuffer ==
    codec_out # None =>
        \A li \in {calculate_block_index(serialized_block_size(codec_in))} :
            InBoundsAndDisjoint(PositionsOfBlock(li[2]),
                                Len(serialize_block(<<>>, codec_in)))

\* a serialized block with two transactions, each with an input and an output
C11_Witness ==
    /\ codec_out # None
    /\ codec_out[1].st = "Ok"
    /\ Len(codec_in.transactions) = 2
    /\ \A i \in 1..2 :
           /\ codec_in.transactions[i].inner.inputs # <<>>
           /\ codec_in.transactions[i].inner.outputs # <<>>

\* C18: a buffer returned by serialize_block_with_index has the total length
\* computed by the size and index passes; the only other outcome is the
\* panic of the assert_eq, which returns no buffer.
C18_BufferHasComputedLength ==
    codec_out # None =>
        /\ codec_out[1].st \in {"Ok", "Panic"}
        /\ codec_out[1].st = "Ok" =>
              \A li \in {calculate_block_index(serialized_block_size(codec_in))} :
                  Len(codec_out[1].val.block_bytes) = li[1]

\* a block with an uncle and a transaction was serialized and a buffer returned
C18_Witness ==
    /\ codec_out # None
    /\ codec_out[1].st = "Ok"
    /\ codec_out[1].val.block_bytes # <<>>
    /\ codec_in.uncles # <<>>
    /\ codec_in.transactions # <<>>

----------------------------------------------------------------------------
(* The storage engine: values, keys and the stores of the environment. *)

Blob(bytes) == [tag |-> "Blob", v |-> bytes]
U64(number) == [tag |-> "U64", n |-> number]
Bool(b) == [tag |-> "Bool", b |-> b]

\* the ASCII bytes of the status key "max-number"
MaxNumberKey == <<109, 97, 120, 45, 110, 117, 109, 98, 101, 114>>

number_bytes(number) == to_le_bytes(number, U64Len)

\* a layout with the slot in bytes 0..8 and the number in bytes 8..16
Index_into_bytes_swapped(number, index) ==
    to_le_bytes(index, U64Len) \o to_le_bytes(number, U64Len)

\* a layout that keeps the two low bytes of the slot only
Index_into_bytes_short_slot(number, index) ==
    to_le_bytes(number, U64Len) \o to_le_bytes(index % 65536, U64Len)

\* Index::into_bytes: number in bytes 0..8, slot in bytes 8..16
Index_into_bytes(number, index) ==
    to_le_bytes(number, U64Len) \o to_le_bytes(index, U64Len)

\* Index::from_slice: the two sub-slices panic on a slice shorter than 16
Index_from_slice(slice) ==
    IF Len(slice) < U64Len + U64Len THEN Panic
    ELSE Ok([number |-> from_le_bytes(SubSeq(slice, 1, U64Len)),
             index |-> from_le_bytes(SubSeq(slice, U64Len + 1, U64Len + U64Len))])

\* CellIndex::into_bytes: the hash, then the index as a u32
CellIndex_into_bytes(tx_hash, index) ==
    as_bytes(tx_hash) \o to_le_bytes(index, U32Len)

\* SingleStore::get
get(store, key) == IF key \in DOMAIN store THEN Some(store[key]) ELSE None

\* SingleStore::put: inserts or replaces
put(store, key, value) ==
    [k \in DOMAIN store \cup {key} |-> IF k = key THEN value ELSE store[k]]

\* SingleStore::delete of a key that is present
delete(store, key) == [k \in DOMAIN store \ {key} |-> store[k]]

PutOp(store, key, value) == [store |-> store, op |-> "put", key |-> key, value |-> value]
DeleteOp(store, key) == [store |-> store, op |-> "delete", key |-> key, value |-> Bool(FALSE)]

----------------------------------------------------------------------------
(* insert_block: the puts and deletes its callback makes, in order. *)

\* index and buffer written under number 0 whatever the block's number
BlockOps_at_zero(block, ser) ==
    <<PutOp("indexes", number_bytes(0), Blob(ser.index_bytes)),
      PutOp("blocks", number_bytes(0), Blob(ser.block_bytes)),
      PutOp("hashes", number_bytes(block.header.inner.number),
            Blob(as_bytes(block.header.hash)))>>

\* index and buffer only: the number -> hash entry left out
BlockOps_without_hash(block, ser) ==
    <<PutOp("indexes", number_bytes(block.header.inner.number), Blob(ser.index_bytes)),
      PutOp("blocks", number_bytes(block.header.inner.number), Blob(ser.block_bytes))>>

\* index, buffer, number -> hash
BlockOps(block, ser) ==
    LET number == block.header.inner.number
    IN  <<PutOp("indexes", number_bytes(number), Blob(ser.index_bytes)),
          PutOp("blocks", number_bytes(number), Blob(ser.block_bytes)),
          PutOp("hashes", number_bytes(number), Blob(as_bytes(block.header.hash)))>>

\* the reverse mapping left out
NumberOps_none(block) == <<>>

\* hash -> number
NumberOps(block) ==
    <<PutOp("numbers", as_bytes(block.header.hash), U64(block.header.inner.number))>>

\* uncle hash -> (number, slot); slots count from 0
UncleOps(block) ==
    [i \in DOMAIN block.uncles |->
        PutOp("uncles", as_bytes(block.uncles[i].header.hash),
              Blob(Index_into_bytes(block.header.inner.number, i - 1)))]

\* the live-cell keys a transaction consumes: its inputs whose previous
\* output names a cell
InputCells(tx) ==
    LET HasCell(input) == input.previous_output.cell # None
        inputs == SelectSeq(tx.inner.inputs, HasCell)
    IN  [i \in DOMAIN inputs |->
            CellIndex_into_bytes(inputs[i].previous_output.cell[1].tx_hash,
                                 inputs[i].previous_output.cell[1].index)]

\* the live-cell keys a transaction creates; output indices count from 0
OutputCells(tx) ==
    [j \in DOMAIN tx.inner.outputs |-> CellIndex_into_bytes(tx.hash, j - 1)]

\* the created cells never enter the live set
CellOps_without_outputs(tx) ==
    [i \in DOMAIN InputCells(tx) |-> DeleteOp("cells", InputCells(tx)[i])]

\* the consumed cells never leave the live set
CellOps_without_inputs(tx) ==
    [j \in DOMAIN OutputCells(tx) |-> PutOp("cells", OutputCells(tx)[j], Bool(TRUE))]

\* the consumed cells leave the live set, then the created cells enter it
CellOps(tx) ==
    LET inputs == InputCells(tx)
        outputs == OutputCells(tx)
    IN  [i \in DOMAIN inputs |-> DeleteOp("cells", inputs[i])]
        \o [j \in DOMAIN outputs |-> PutOp("cells", outputs[j], Bool(TRUE))]

\* transaction hash -> (number, slot), then the transaction's cells
TxOps(block) ==
    Concat([i \in DOMAIN block.transactions |->
               <<PutOp("txs", as_bytes(block.transactions[i].hash),
                       Blob(Index_into_bytes(block.header.inner.number, i - 1)))>>
               \o CellOps(block.transactions[i])])

\* the status record written as 0 whatever the block's number
StatusOps_zero(block) ==
    <<PutOp("status", MaxNumberKey, U64(0))>>

StatusOps(block) ==
    <<PutOp("status", MaxNumberKey, U64(block.header.inner.number))>>

WriteOps(block, ser) ==
    BlockOps(block, ser) \o NumberOps(block) \o UncleOps(block) \o TxOps(block)
    \o StatusOps(block)

----------------------------------------------------------------------------
(* A write transaction.  The Writer works on its own copy of the stores;   *)
(* commit publishes the copy; a Writer dropped without commit is aborted.  *)
(* The engine may fail any put, delete or commit; LMDB's delete also fails *)
(* (MDB_NOTFOUND, which rkv hands on as a StoreError) when the key is not  *)
(* in the store.  fail = 0: the engine fails nothing; fail = k: it fails   *)
(* the k-th call of the callback, the commit being the last.               *)

\* an engine whose delete of an absent key succeeds
apply_delete_lenient(w, op) ==
    IF op.op = "put"
    THEN [st |-> "Ok", w |-> [w EXCEPT ![op.store] = put(@, op.key, op.value)]]
    ELSE [st |-> "Ok", w |-> [w EXCEPT ![op.store] = delete(@, op.key)]]

\* one put or delete on the Writer's copy w: [st, w]
apply(w, op) ==
    IF op.op = "put"
    THEN [st |-> "Ok", w |-> [w EXCEPT ![op.store] = put(@, op.key, op.value)]]
    ELSE IF op.key \in DOMAIN w[op.store]
    THEN [st |-> "Ok", w |-> [w EXCEPT ![op.store] = delete(@, op.key)]]
    ELSE [st |-> "Err", w |-> w]

\* the callback from its k-th call on, each call followed by `?`
RECURSIVE run(_, _, _, _)
run(w, ops, k, fail) ==
    IF k = fail THEN [st |-> "Err", w |-> w]
    ELSE IF k > Len(ops) THEN [st |-> "Ok", w |-> w]
    ELSE CHOOSE x \in {IF r.st # "Ok" THEN r ELSE run(r.w, ops, k + 1, fail) :
                            r \in {apply(w, ops[k])}} : TRUE

\* a write that publishes whatever the Writer had done when the callback
\* returned, committed or not
write_without_abort(e, ops, fail) ==
    LET r == run(e, ops, 1, fail)
    IN  [st |-> r.st, env |-> r.w]

\* Storage::write with a callback that makes the calls ops and commits
write(e, ops, fail) ==
    LET r == run(e, ops, 1, fail)
    IN  IF r.st = "Ok" THEN [st |-> "Ok", env |-> r.w] ELSE [st |-> "Err", env |-> e]

\* the first half of insert_block: the codec's verdict and, when it is Ok,
\* the calls the callback will make
prepare(block) ==
    LET ser == serialize_block_with_index(block)
    IN  [st |-> ser.st,
         ops |-> IF ser.st = "Ok" THEN WriteOps(block, ser.val) ELSE <<>>]

\* the second half: the write transaction: [st, env]
insert_prepared(e, p, fail) ==
    IF p.st # "Ok" THEN [st |-> p.st, env |-> e]
    ELSE write(e, p.ops, fail)

\* insert_block: [st, env]
insert_block(e, block, fail) ==
    insert_prepared(e, prepare(block), fail)

\* an insert that leaves a key that is already stored as it is
insert_keeps_first(e, key, value, fail) ==
    IF key \in DOMAIN e.custom THEN write(e, <<>>, fail)
    ELSE write(e, <<PutOp("custom", key, Blob(value))>>, fail)

\* an insert that writes into the status store
insert_into_status(e, key, value, fail) ==
    write(e, <<PutOp("status", key, Blob(value))>>, fail)

\* insert: [st, env]
insert(e, key, value, fail) == write(e, <<PutOp("custom", key, Blob(value))>>, fail)

----------------------------------------------------------------------------
(* Reads.  Each runs in one read transaction on the environment e and      *)
(* returns Ok(None), Ok(Some(v)), Err or Panic.                            *)

unpack_u64(value) == IF value.tag = "U64" THEN Ok(value.n) ELSE Err

unpack_blob(value) == IF value.tag = "Blob" THEN Ok(value.v) ELSE Err

\* H256::from_slice accepts exactly 32 bytes
unpack_hash(bytes) == IF Len(bytes) = HashLen THEN Ok(from_le_bytes(bytes)) ELSE Err

\* a lookup that reports a missing buffer as an error
fetch_block_buffer_required(e, number) ==
    LET block_index_opt == get(e.indexes, number_bytes(number))
        block_opt == get(e.blocks, number_bytes(number))
    IN  IF block_index_opt = None THEN Ok(None)
        ELSE IF unpack_blob(block_index_opt[1]).st # "Ok" THEN Err
        ELSE IF block_opt = None THEN Err
        ELSE IF unpack_blob(block_opt[1]).st # "Ok" THEN Err
        ELSE LET block_index == deserialize_index(block_index_opt[1].v)
             IN  IF block_index.st # "Ok" THEN Err
                 ELSE Ok(Some([index |-> block_index.val, bytes |-> block_opt[1].v]))

\* the index and buffer stored for a number: Ok(None) when either is
\* missing, else Ok(Some([index, bytes])) with the index decoded
fetch_block(e, number) ==
    LET block_index_opt == get(e.indexes, number_bytes(number))
        block_opt == get(e.blocks, number_bytes(number))
    IN  IF block_index_opt = None THEN Ok(None)
        ELSE IF unpack_blob(block_index_opt[1]).st # "Ok" THEN Err
        ELSE IF block_opt = None THEN Ok(None)
        ELSE IF unpack_blob(block_opt[1]).st # "Ok" THEN Err
        ELSE LET block_index == deserialize_index(block_index_opt[1].v)
             IN  IF block_index.st # "Ok" THEN Err
                 ELSE Ok(Some([index |-> block_index.val, bytes |-> block_opt[1].v]))

\* the (number, slot) stored for a hash in the uncles or transactions store
fetch_location(store, hash) ==
    LET index_opt == get(store, as_bytes(hash))
    IN  IF index_opt = None THEN Ok(None)
        ELSE IF unpack_blob(index_opt[1]).st # "Ok" THEN Err
        ELSE LET loc == Index_from_slice(index_opt[1].v)
             IN  IF loc.st # "Ok" THEN loc ELSE Ok(Some(loc.val))

\* a decoder's result as the result of the read
some_if_ok(r) == IF r.st = "Ok" THEN Ok(Some(r.val)) ELSE [st |-> r.st, val |-> <<>>]

select_block_hash(e, block_number) ==
    LET hash_opt == get(e.hashes, number_bytes(block_number))
    IN  IF hash_opt = None THEN Ok(None)
        ELSE IF unpack_blob(hash_opt[1]).st # "Ok" THEN Err
        ELSE some_if_ok(unpack_hash(hash_opt[1].v))

select_block_number(e, block_hash) ==
    LET number_opt == get(e.numbers, as_bytes(block_hash))
    IN  IF number_opt = None THEN Ok(None)
        ELSE some_if_ok(unpack_u64(number_opt[1]))

select_block_by_number(e, block_number) ==
    LET f == fetch_block(e, block_number)
    IN  IF f.st # "Ok" \/ f.val = None THEN f
        ELSE some_if_ok(deserialize_block(f.val[1].bytes, f.val[1].index))

select_block_by_hash(e, block_hash) ==
    LET n == select_block_number(e, block_hash)
    IN  IF n.st # "Ok" \/ n.val = None THEN n
        ELSE select_block_by_number(e, n.val[1])

select_uncle_block(e, uncle_hash) ==
    LET loc == fetch_location(e.uncles, uncle_hash)
    IN  IF loc.st # "Ok" \/ loc.val = None THEN loc
        ELSE LET f == fetch_block(e, loc.val[1].number)
             IN  IF f.st # "Ok" \/ f.val = None THEN f
                 ELSE IF loc.val[1].index >= Len(f.val[1].index.uncles) THEN Panic
                 ELSE some_if_ok(deserialize_uncle_block(
                          f.val[1].bytes, f.val[1].index.uncles[loc.val[1].index + 1]))

select_transaction(e, tx_hash) ==
    LET loc == fetch_location(e.txs, tx_hash)
    IN  IF loc.st # "Ok" \/ loc.val = None THEN loc
        ELSE LET f == fetch_block(e, loc.val[1].number)
             IN  IF f.st # "Ok" \/ f.val = None THEN f
                 ELSE IF loc.val[1].index >= Len(f.val[1].index.transactions) THEN Panic
                 ELSE some_if_ok(deserialize_transaction(
                          f.val[1].bytes,
                          f.val[1].index.transactions[loc.val[1].index + 1]))

\* a read that answers only for outputs that are still live
select_cell_output_if_live(e, tx_hash, cell_index) ==
    IF get(e.cells, CellIndex_into_bytes(tx_hash, cell_index)) = None THEN Ok(None) ELSE
    LET loc == fetch_location(e.txs, tx_hash)
    IN  IF loc.st # "Ok" \/ loc.val = None THEN loc
        ELSE LET f == fetch_block(e, loc.val[1].number)
             IN  IF f.st # "Ok" \/ f.val = None THEN f
                 ELSE IF loc.val[1].index >= Len(f.val[1].index.transactions) THEN Panic
                 ELSE LET outputs ==
                              f.val[1].index.transactions[loc.val[1].index + 1].outputs
                      IN  IF cell_index >= Len(outputs) THEN Panic
                          ELSE some_if_ok(deserialize("CellOutput", f.val[1].bytes,
                                                      outputs[cell_index + 1]))

select_cell_output(e, tx_hash, cell_index) ==
    LET loc == fetch_location(e.txs, tx_hash)
    IN  IF loc.st # "Ok" \/ loc.val = None THEN loc
        ELSE LET f == fetch_block(e, loc.val[1].number)
             IN  IF f.st # "Ok" \/ f.val = None THEN f
                 ELSE IF loc.val[1].index >= Len(f.val[1].index.transactions) THEN Panic
                 ELSE LET outputs ==
                              f.val[1].index.transactions[loc.val[1].index + 1].outputs
                      IN  IF cell_index >= Len(outputs) THEN Panic
                          ELSE some_if_ok(deserialize("CellOutput", f.val[1].bytes,
                                                      outputs[cell_index + 1]))

\* Some(<<>>) stands for Some(())
select_cell_status(e, tx_hash, cell_index) ==
    IF get(e.cells, CellIndex_into_bytes(tx_hash, cell_index)) = None
    THEN Ok(None) ELSE Ok(Some(<<>>))

select_max_number(e) ==
    LET number_opt == get(e.status, MaxNumberKey)
    IN  IF number_opt = None THEN Ok(None)
        ELSE some_if_ok(unpack_u64(number_opt[1]))

select(e, key) ==
    LET data_opt == get(e.custom, key)
    IN  IF data_opt = None THEN Ok(None)
        ELSE some_if_ok(unpack_blob(data_opt[1]))

----------------------------------------------------------------------------
(* The storage engine under its callers: blocks, keys and hashes are drawn *)
(* from small sets; every call is one step.                                *)

BlockHashes == {1, 2}
UncleHashes == {3}
TxHashes == {1, 2, 3}
CustomKeys == {<<1>>, MaxNumberKey}
CustomValues == {<<>>, <<5>>}

StorageTransaction(hash, inputs, outputs) ==
    [hash |-> hash,
     inner |-> [version |-> 0, deps |-> <<>>, inputs |-> inputs,
                outputs |-> outputs, witnesses |-> <<>>]]
StorageInput(cell) == [previous_output |-> [cell |-> cell], since |-> 0]

\* A hash stands for the content it was computed from: one transaction per
\* hash.  Transaction 1 creates cells, transaction 2 spends cell (1, 0),
\* transaction 3 has an input that names no cell.
StorageTransactions ==
    {StorageTransaction(1, <<>>,
                        [j \in 1..MaxOutputs |-> [capacity |-> 4 + j, data |-> <<>>]]),
     StorageTransaction(2, <<StorageInput(Some([tx_hash |-> 1, index |-> 0]))>>, <<>>),
     StorageTransaction(3, <<StorageInput(None)>>, <<>>)}
StorageUncles ==
    [header : [hash : UncleHashes, inner : {[number |-> 0, timestamp |-> 0]}],
     proposals : {<<>>}]
StorageBlocks ==
    [header : [hash : BlockHashes,
               inner : [number : 0..MaxNumber, timestamp : {0}]],
     uncles : SeqUpTo(StorageUncles, MaxUncles),
     transactions : SeqUpTo(StorageTransactions, MaxTxs),
     proposals : {<<>>}]

CodecIdle ==
    /\ codec_in = <<>>
    /\ codec_out = None
    /\ codec_dec = NoDec

Init ==
    /\ StorageInit
    /\ CodecIdle

\* a return after which a block that was read is gone from the stores
Return_taking(op, arg, res, e) ==
    /\ nops' = nops + 1
    /\ last' = [op |-> op, arg |-> arg, res |-> res]
    /\ env' = IF op = "select_block_by_number" /\ res.st = "Ok" /\ res.val # None
              THEN [e EXCEPT !.blocks = delete(@, number_bytes(arg[1]))]
              ELSE e
    /\ UNCHANGED <<codec_in, codec_out, codec_dec, txn, opened, tcp, retry>>

\* a storage call returns: the environment is e, the caller holds res
Return(op, arg, res, e) ==
    /\ nops' = nops + 1
    /\ last' = [op |-> op, arg |-> arg, res |-> res]
    /\ env' = e
    /\ UNCHANGED <<codec_in, codec_out, codec_dec, txn, opened, tcp, retry>>

\* prepare, tabulated over the universe
Prepared == [block \in StorageBlocks |-> prepare(block)]

InsertBlock ==
    /\ nops < MaxOps
    /\ \E block \in StorageBlocks :
        \E p \in {Prepared[block]} :
            \E fail \in 0..(Len(p.ops) + 1) :
                \E r \in {insert_prepared(env, p, fail)} :
                    IF r.st = "Ok"
                    THEN Return("insert_block", Some(block), Ok(<<>>), r.env)
                    ELSE Return("insert_block", None, [st |-> r.st, val |-> <<>>], r.env)

Insert ==
    /\ nops < MaxOps
    /\ \E key \in CustomKeys, value \in CustomValues, fail \in 0..2 :
        \E r \in {insert(env, key, value, fail)} :
            Return("insert", <<key, value>>, [st |-> r.st, val |-> <<>>], r.env)

SelectBlockHash ==
    /\ nops < MaxOps
    /\ \E n \in 0..MaxNumber :
        \E r \in {select_block_hash(env, n)} :
            Return("select_block_hash", <<n>>, r, env)

SelectBlockNumber ==
    /\ nops < MaxOps
    /\ \E h \in BlockHashes :
        \E r \in {select_block_number(env, h)} :
            Return("select_block_number", <<h>>, r, env)

SelectBlockByNumber ==
    /\ nops < MaxOps
    /\ \E n \in 0..MaxNumber :
        \E r \in {select_block_by_number(env, n)} :
            Return("select_block_by_number", <<n>>, r, env)

SelectBlockByHash ==
    /\ nops < MaxOps
    /\ \E h \in BlockHashes :
        \E r \in {select_block_by_hash(env, h)} :
            Return("select_block_by_hash", <<h>>, r, env)

SelectUncleBlock ==
    /\ nops < MaxOps
    /\ \E h \in UncleHashes :
        \E r \in {select_uncle_block(env, h)} :
            Return("select_uncle_block", <<h>>, r, env)

SelectTransaction ==
    /\ nops < MaxOps
    /\ \E h \in TxHashes :
        \E r \in {select_transaction(env, h)} :
            Return("select_transaction", <<h>>, r, env)

SelectCellOutput ==
    /\ nops < MaxOps
    /\ \E h \in TxHashes, j \in 0..MaxOutputs :
        \E r \in {select_cell_output(env, h, j)} :
            Return("select_cell_output", <<h, j>>, r, env)

SelectCellStatus ==
    /\ nops < MaxOps
    /\ \E h \in TxHashes, j \in 0..MaxOutputs :
        \E r \in {select_cell_status(env, h, j)} :
            Return("select_cell_status", <<h, j>>, r, env)

SelectMaxNumber ==
    /\ nops < MaxOps
    /\ \E r \in {select_max_number(env)} :
        Return("select_max_number", <<>>, r, env)

Select ==
    /\ nops < MaxOps
    /\ \E key \in CustomKeys :
        \E r \in {select(env, key)} :
            Return("select", <<key>>, r, env)

Next ==
    \/ InsertBlock
    \/ Insert
    \/ SelectBlockHash
    \/ SelectBlockNumber
    \/ SelectBlockByNumber
    \/ SelectBlockByHash
    \/ SelectUncleBlock
    \/ SelectTransaction
    \/ SelectCellOutput
    \/ SelectCellStatus
    \/ SelectMaxNumber
    \/ Select

Spec == Init /\ [][Next]_vars

----------------------------------------------------------------------------
(* Properties of the storage engine.                                       *)

InsertedOk == last.op = "insert_block" /\ last.res.st = "Ok"
InsertFailed == last.op = "insert_block" /\ last.res.st # "Ok"

\* the cells a transaction creates and the cells it consumes
Created(tx) ==
    {[tx_hash |-> tx.hash, index |-> j - 1] : j \in DOMAIN tx.inner.outputs}
Consumed(tx) ==
    {tx.inner.inputs[k].previous_output.cell[1] :
        k \in {k \in DOMAIN tx.inner.inputs :
                  tx.inner.inputs[k].previous_output.cell # None}}

Live(e, c) == select_cell_status(e, c.tx_hash, c.index) = Ok(Some(<<>>))
NotLive(e, c) == select_cell_status(e, c.tx_hash, c.index) = Ok(None)

\* every created cell that no later transaction of the block consumes is live
UnspentOutputsLive(e, block) ==
    \A i \in DOMAIN block.transactions :
        \A c \in Created(block.transactions[i]) :
            (\A k \in DOMAIN block.transactions :
                k > i => c \notin Consumed(block.transactions[k]))
            => Live(e, c)

\* every consumed cell that neither the consuming transaction nor a later
\* one of the block creates is not live
InputsNotLive(e, block) ==
    \A i \in DOMAIN block.transactions :
        \A c \in Consumed(block.transactions[i]) :
            (\A k \in DOMAIN block.transactions :
                k >= i => c \notin Created(block.transactions[k]))
            => NotLive(e, c)

\* the location stored for hash in store names a slot of number whose
\* element has that hash
Located(store, hash, number, hashes) ==
    \E loc \in {fetch_location(store, hash)} :
        /\ loc.st = "Ok"
        /\ loc.val # None
        /\ loc.val[1].number = number
        /\ loc.val[1].index < Len(hashes)
        /\ hashes[loc.val[1].index + 1] = hash

\* everything insert_block(block) writes is in the stores
Recorded(e, block) ==
    \E n \in {block.header.inner.number} :
        /\ select_block_by_number(e, n) = Ok(Some(block))
        /\ select_block_hash(e, n) = Ok(Some(block.header.hash))
        /\ select_block_number(e, block.header.hash) = Ok(Some(n))
        /\ \A i \in DOMAIN block.uncles :
               Located(e.uncles, block.uncles[i].header.hash, n,
                       [k \in DOMAIN block.uncles |-> block.uncles[k].header.hash])
        /\ \A i \in DOMAIN block.transactions :
               Located(e.txs, block.transactions[i].hash, n,
                       [k \in DOMAIN block.transactions |-> block.transactions[k].hash])
        /\ UnspentOutputsLive(e, block)
        /\ InputsNotLive(e, block)
        /\ select_max_number(e) = Ok(Some(n))

\* C3: insert_block is all-or-nothing: a call that returns an error leaves
\* all nine stores as they were, and after a call that returns Ok the
\* block's index, buffer, both hash mappings, every uncle and transaction
\* location, its live-cell changes and max-number are all in the stores.
C3_AllOrNothing ==
    [][/\ InsertFailed' => env' = env
       /\ InsertedOk' => Recorded(env', last'.arg[1])]_vars

\* a failed insert_block on stores that already hold a block
C3_Witness ==
    /\ InsertFailed
    /\ env.blocks # NoTable

StoredNumbers == {n \in 0..MaxNumber : number_bytes(n) \in DOMAIN env.blocks}
Highest(S) == CHOOSE n \in S : \A m \in S : m <= n

\* C6: after any sequence of successful insert_block calls
\* select_max_number returns the highest number among the stored blocks.
C6_MaxIsHighest ==
    StoredNumbers # {} => select_max_number(env) = Ok(Some(Highest(StoredNumbers)))

\* C7: after a successful insert_block(b) select_max_number returns
\* Some(b's number); before any block was inserted it returns None.
C7_MaxNumberIsLast ==
    /\ InsertedOk => select_max_number(env) = Ok(Some(last.arg[1].header.inner.number))
    /\ env.blocks = NoTable => select_max_number(env) = Ok(None)

\* a lower number inserted while a higher one is stored
C7_Witness ==
    /\ InsertedOk
    /\ \E n \in StoredNumbers : n > last.arg[1].header.inner.number

\* C8: after a successful insert_block(b) with hash h and number n,
\* select_block_number(h) is Some(n) and select_block_hash(n) is Some(h).
C8_HashAndNumber ==
    InsertedOk =>
        \E h \in {last.arg[1].header.hash}, n \in {last.arg[1].header.inner.number} :
            /\ select_block_number(env, h) = Ok(Some(n))
            /\ select_block_hash(env, n) = Ok(Some(h))

\* the hash inserted under a second number
C8_Witness ==
    /\ InsertedOk
    /\ \E n \in StoredNumbers :
           /\ n # last.arg[1].header.inner.number
           /\ select_block_hash(env, n) = Ok(Some(last.arg[1].header.hash))

\* C9 as stated: the buffer and the index stored for a number never change.
C9_NeverChange ==
    [][\A k \in DOMAIN env.blocks :
           /\ k \in DOMAIN env'.blocks
           /\ env'.blocks[k] = env.blocks[k]
           /\ env'.indexes[k] = env.indexes[k]]_vars

\* C9: the buffer and the index stored for a number stay stored, and they
\* change only in a successful insert_block of a block carrying that number.
C9_ChangeOnlyBySameNumber ==
    [][\A k \in DOMAIN env.blocks :
           /\ k \in DOMAIN env'.blocks
           /\ k \in DOMAIN env'.indexes
           /\ (env'.blocks[k] # env.blocks[k] \/ env'.indexes[k] # env.indexes[k])
              => /\ InsertedOk'
                 /\ number_bytes(last'.arg[1].header.inner.number) = k]_vars

\* two numbers stored, the second insert_block having left the first alone
C9_Witness ==
    /\ InsertedOk
    /\ nops = 2
    /\ \E n \in StoredNumbers : n # last.arg[1].header.inner.number

\* the addressed output is stored: tx_hash is a stored transaction with
\* more than cell_index outputs
OutputExists(e, tx_hash, cell_index) ==
    \E r \in {select_transaction(e, tx_hash)} :
        /\ r.st = "Ok"
        /\ r.val # None
        /\ cell_index < Len(r.val[1].inner.outputs)

\* C13: select_cell_output returns Ok(None) whenever the addressed output
\* does not exist, also when tx_hash is stored and the index is not below
\* the number of its outputs.
C13_AbsentOutputIsNone ==
    (/\ last.op = "select_cell_output"
     /\ ~OutputExists(env, last.arg[1], last.arg[2]))
    => last.res = Ok(None)

\* C14: after a successful insert_block(b) select_transaction returns every
\* transaction of b and select_uncle_block every uncle of b, each found
\* through a stored location that names b's number and a slot holding it.
C14_TransactionsAndUncles ==
    InsertedOk =>
        \E b \in {last.arg[1]} :
            /\ \A i \in DOMAIN b.transactions :
                   /\ select_transaction(env, b.transactions[i].hash)
                          = Ok(Some(b.transactions[i]))
                   /\ \E loc \in {fetch_location(env.txs, b.transactions[i].hash)} :
                          /\ loc.val[1].number = b.header.inner.number
                          /\ b.transactions[loc.val[1].index + 1] = b.transactions[i]
            /\ \A i \in DOMAIN b.uncles :
                   /\ select_uncle_block(env, b.uncles[i].header.hash)
                          = Ok(Some(b.uncles[i]))
                   /\ \E loc \in {fetch_location(env.uncles, b.uncles[i].header.hash)} :
                          /\ loc.val[1].number = b.header.inner.number
                          /\ b.uncles[loc.val[1].index + 1] = b.uncles[i]

\* a block with an uncle and two different transactions, inserted over an
\* earlier block
C14_Witness ==
    /\ InsertedOk
    /\ nops = 2
    /\ Len(last.arg[1].uncles) = 1
    /\ Len(last.arg[1].transactions) = 2
    /\ last.arg[1].transactions[1] # last.arg[1].transactions[2]

\* C15: after a successful insert_block(b) select_cell_output returns every
\* output of every transaction of b, live or not.
C15_OutputsReadable ==
    InsertedOk =>
        \A i \in DOMAIN last.arg[1].transactions :
            \E t \in {last.arg[1].transactions[i]} :
                \A j \in DOMAIN t.inner.outputs :
                    select_cell_output(env, t.hash, j - 1) = Ok(Some(t.inner.outputs[j]))

\* an output of the inserted block that a later transaction of the block
\* has spent
C15_Witness ==
    /\ InsertedOk
    /\ \E i \in DOMAIN last.arg[1].transactions :
           \E c \in Created(last.arg[1].transactions[i]) :
               /\ NotLive(env, c)
               /\ select_cell_output(env, c.tx_hash, c.index).val # None

----------------------------------------------------------------------------
(* Reads over stores that are not as insert_block left them.  The          *)
(* environment is a directory on disk that outlives the process: another   *)
(* user of the environment, an older version of the program or a direct    *)
(* deletion can have removed a record or left a value of another shape.    *)
(* Each initial state is the stores after one insert_block and one insert, *)
(* with at most one record removed or reshaped.                            *)

StoreNames ==
    {"indexes", "blocks", "hashes", "numbers", "uncles", "txs", "cells",
     "status", "custom"}
DamageKinds == {"delete", "retag", "truncate", "extend"}

\* the blocks the damaged stores start from: an uncle, and transaction 1
\* followed by a second transaction
ReadBlocks ==
    {b \in StorageBlocks :
        /\ b.header.hash = 1
        /\ Len(b.uncles) = MaxUncles
        /\ Len(b.transactions) = MaxTxs
        /\ b.transactions[1].hash = 1}

BaseEnvs ==
    {insert(insert_block(NoStores, b, 0).env, <<1>>, <<5>>, 0).env : b \in ReadBlocks}

\* the value with one byte less, with one byte more, or of the other shape
Reshaped(v, kind) ==
    CASE kind = "retag" -> IF v.tag = "Blob" THEN U64(7) ELSE Blob(<<7>>)
      [] kind = "truncate" ->
            IF v.tag = "Blob" /\ v.v # <<>>
            THEN Blob(SubSeq(v.v, 1, Len(v.v) - 1)) ELSE v
      [] kind = "extend" -> IF v.tag = "Blob" THEN Blob(v.v \o <<0>>) ELSE v

Damage(e, store, key, kind) ==
    IF kind = "delete" THEN [e EXCEPT ![store] = delete(@, key)]
    ELSE [e EXCEPT ![store] = put(@, key, Reshaped(e[store][key], kind))]

DamagedEnvs ==
    BaseEnvs \cup
    UNION {{Damage(e, store, key, kind) : key \in DOMAIN e[store], kind \in DamageKinds} :
              e \in BaseEnvs, store \in StoreNames}

ReadInit ==
    /\ env \in DamagedEnvs
    /\ last = NoOp
    /\ nops = 0
    /\ txn = NoTxn
    /\ OthersIdle
    /\ CodecIdle

ReadNext ==
    \/ SelectBlockHash
    \/ SelectBlockNumber
    \/ SelectBlockByNumber
    \/ SelectBlockByHash
    \/ SelectUncleBlock
    \/ SelectTransaction
    \/ SelectCellOutput
    \/ SelectCellStatus
    \/ SelectMaxNumber
    \/ Select

SpecRead == ReadInit /\ [][ReadNext]_vars

\* the record of number n that a chain of lookups finds missing first: the
\* index entry, or the buffer entry once the index entry was read as a blob
MissingBlock(e, n) ==
    \/ get(e.indexes, number_bytes(n)) = None
    \/ /\ get(e.indexes, number_bytes(n))[1].tag = "Blob"
       /\ get(e.blocks, number_bytes(n)) = None

\* the location of a hash is missing, or is read and leads to a missing record
MissingFrom(e, store, hash) ==
    \/ get(store, as_bytes(hash)) = None
    \/ /\ fetch_location(store, hash).st = "Ok"
       /\ MissingBlock(e, fetch_location(store, hash).val[1].number)

\* the first defect the read meets along its chain is a missing link
MissingLink(e, op, arg) ==
    CASE op = "select_block_by_number" -> MissingBlock(e, arg[1])
      [] op = "select_block_by_hash" ->
            \/ get(e.numbers, as_bytes(arg[1])) = None
            \/ /\ get(e.numbers, as_bytes(arg[1]))[1].tag = "U64"
               /\ MissingBlock(e, get(e.numbers, as_bytes(arg[1]))[1].n)
      [] op = "select_uncle_block" -> MissingFrom(e, e.uncles, arg[1])
      [] op = "select_transaction" -> MissingFrom(e, e.txs, arg[1])
      [] op = "select_cell_output" -> MissingFrom(e, e.txs, arg[1])
      [] OTHER -> FALSE

\* C12: a read that follows a chain of lookups (by number, by hash, uncle,
\* transaction, cell output) returns Ok(None), not an error, when the first
\* thing wrong on its chain is a missing link: an unknown hash, no index
\* entry for the resolved number, or no buffer entry for that number.
C12_MissingLinkIsNone ==
    MissingLink(env, last.op, last.arg) => last.res = Ok(None)

\* a transaction whose location is stored and whose block's buffer is gone
\* was read, and the read returned Ok(None)
C12_Witness ==
    /\ last.op = "select_transaction"
    /\ get(env.txs, as_bytes(last.arg[1])) # None
    /\ fetch_location(env.txs, last.arg[1]).st = "Ok"
    /\ get(env.indexes, number_bytes(fetch_location(env.txs, last.arg[1]).val[1].number)) # None
    /\ get(env.blocks, number_bytes(fetch_location(env.txs, last.arg[1]).val[1].number)) = None
    /\ last.res = Ok(None)

\* the location stored for a hash is not a blob of 16 bytes
BadLocation(store, hash) ==
    /\ get(store, as_bytes(hash)) # None
    /\ \/ get(store, as_bytes(hash))[1].tag # "Blob"
       \/ Len(get(store, as_bytes(hash))[1].v) # 2 * U64Len

\* the first stored value the read meets has an unexpected encoding
Corrupt(e, op, arg) ==
    CASE op = "select_block_hash" ->
            /\ get(e.hashes, number_bytes(arg[1])) # None
            /\ \/ get(e.hashes, number_bytes(arg[1]))[1].tag # "Blob"
               \/ Len(get(e.hashes, number_bytes(arg[1]))[1].v) # HashLen
      [] op \in {"select_block_number", "select_block_by_hash"} ->
            /\ get(e.numbers, as_bytes(arg[1])) # None
            /\ get(e.numbers, as_bytes(arg[1]))[1].tag # "U64"
      [] op = "select_block_by_number" ->
            /\ get(e.indexes, number_bytes(arg[1])) # None
            /\ get(e.indexes, number_bytes(arg[1]))[1].tag # "Blob"
      [] op = "select_uncle_block" -> BadLocation(e.uncles, arg[1])
      [] op \in {"select_transaction", "select_cell_output"} ->
            BadLocation(e.txs, arg[1])
      [] op = "select_max_number" ->
            /\ get(e.status, MaxNumberKey) # None
            /\ get(e.status, MaxNumberKey)[1].tag # "U64"
      [] op = "select" ->
            /\ get(e.custom, arg[1]) # None
            /\ get(e.custom, arg[1])[1].tag # "Blob"
      [] OTHER -> FALSE

\* C16: a stored value with an unexpected encoding (a number that is not a
\* U64, a value that is not a blob where a blob is expected, a block hash
\* that is not 32 bytes, a location that is not 16 bytes) makes the read
\* that meets it return Err.
C16_CorruptIsErr ==
    Corrupt(env, last.op, last.arg) => last.res = Err

\* the buffer stored for number n is too short for a position of its index
OutOfRange(e, n) ==
    /\ fetch_block(e, n).st = "Ok"
    /\ fetch_block(e, n).val # None
    /\ \E f \in {fetch_block(e, n).val[1]} :
          \E k \in DOMAIN PositionsOfBlock(f.index) :
              PositionsOfBlock(f.index)[k].offset + PositionsOfBlock(f.index)[k].length
                  > Len(f.bytes)

\* C17: a read that decodes a block whose index holds a position out of the
\* buffer (offset + length greater than the buffer length) returns Err to
\* its caller.
C17_OutOfRangeIsErr ==
    last.op = "select_block_by_number" /\ OutOfRange(env, last.arg[1])
        => last.res = Err

----------------------------------------------------------------------------
(* Calls from two threads on one Storage: one thread writes, one reads.    *)
(* A call is a sequence of steps: it is entered, it opens its transaction  *)
(* on the environment, the callback makes its calls one by one, and the    *)
(* call returns.  LMDB gives a Reader the stores as committed when the     *)
(* Reader was opened; a Writer works on its own copy until it commits.     *)

\* a Reader that sees what an open Writer has written so far
Snapshot_dirty(e, writer) == IF writer = None THEN e ELSE writer[1].w

\* what a Reader opened on stores e sees for as long as it is open
Snapshot(e, writer) == e

\* the blocks the writing thread inserts, and the stores it starts from
ConcBlocks ==
    {b \in StorageBlocks :
        /\ Len(b.uncles) = MaxUncles
        /\ Len(b.transactions) = MaxTxs
        /\ b.transactions[1].hash = 1
        /\ b.transactions[2].hash = 2}

ConcEnvs ==
    {NoStores} \cup
    {insert_block(NoStores, b, 0).env :
        b \in {c \in ConcBlocks : c.header.hash = 1 /\ c.header.inner.number = 0}}

ConcInit ==
    /\ env \in ConcEnvs
    /\ last = NoOp
    /\ nops = 0
    /\ txn = NoTxn
    /\ OthersIdle
    /\ CodecIdle

InFlight ==
    (IF txn.wcall = None THEN 0 ELSE 1) + (IF txn.rcall = None THEN 0 ELSE 1)

\* a write call returns although its Writer, not committed, is still open
WriteReturns_holding_on_error(res, e) ==
    /\ txn' = [txn EXCEPT !.wcall = None,
                          !.writer = IF res.st = "Ok" THEN None ELSE @]
    /\ nops' = nops + 1
    /\ last' = [op |-> txn.wcall[1].op, arg |-> txn.wcall[1].arg, res |-> res]
    /\ env' = e
    /\ UNCHANGED <<codec_in, codec_out, codec_dec, opened, tcp, retry>>

\* Storage::write returns res: the Writer, moved into the callback, has been
\* consumed by commit or dropped; the stores are e
WriteReturns(res, e) ==
    /\ txn' = [txn EXCEPT !.wcall = None, !.writer = None]
    /\ nops' = nops + 1
    /\ last' = [op |-> txn.wcall[1].op, arg |-> txn.wcall[1].arg, res |-> res]
    /\ env' = e
    /\ UNCHANGED <<codec_in, codec_out, codec_dec, opened, tcp, retry>>

\* Storage::read returns res: the Reader goes out of scope
ReadReturns(res) ==
    /\ txn' = [txn EXCEPT !.rcall = None, !.reader = None]
    /\ nops' = nops + 1
    /\ last' = [op |-> txn.rcall[1].op, arg |-> txn.rcall[1].arg, res |-> res]
    /\ UNCHANGED <<env, codec_in, codec_out, codec_dec, opened, tcp, retry>>

\* a call is entered: nothing is open yet
Enter(who, call) ==
    /\ nops + InFlight < MaxOps
    /\ txn[who] = None
    /\ txn' = [txn EXCEPT ![who] = Some(call)]
    /\ UNCHANGED <<env, last, nops, codec_in, codec_out, codec_dec, opened, tcp, retry>>

\* insert_block up to Storage::write: the block is serialized and the calls
\* of the callback are fixed
CallInsertBlock ==
    \E block \in ConcBlocks :
        \E p \in {Prepared[block]} :
            /\ p.st = "Ok"
            /\ Enter("wcall", [op |-> "insert_block", arg |-> Some(block), ops |-> p.ops])

CallInsert ==
    \E key \in CustomKeys, value \in CustomValues :
        Enter("wcall", [op |-> "insert", arg |-> <<key, value>>,
                        ops |-> <<PutOp("custom", key, Blob(value))>>])

\* handler.write()?
BeginWrite ==
    /\ txn.wcall # None
    /\ txn.writer = None
    /\ \/ /\ txn' = [txn EXCEPT !.writer = Some([w |-> env, k |-> 1])]
          /\ UNCHANGED <<env, last, nops, codec_in, codec_out, codec_dec, opened, tcp, retry>>
       \/ WriteReturns(Err, env)

\* one put or delete of the callback, followed by `?`
StepWrite ==
    /\ txn.writer # None
    /\ txn.writer[1].k <= Len(txn.wcall[1].ops)
    /\ \E fail \in BOOLEAN :
          \E r \in {apply(txn.writer[1].w, txn.wcall[1].ops[txn.writer[1].k])} :
              IF ~fail /\ r.st = "Ok"
              THEN /\ txn' = [txn EXCEPT !.writer = Some([w |-> r.w, k |-> txn.writer[1].k + 1])]
                   /\ UNCHANGED <<env, last, nops, codec_in, codec_out, codec_dec, opened, tcp, retry>>
              ELSE WriteReturns(Err, env)

\* writer.commit(), the last call of the callback
CommitWrite ==
    /\ txn.writer # None
    /\ txn.writer[1].k > Len(txn.wcall[1].ops)
    /\ \/ WriteReturns(Ok(<<>>), txn.writer[1].w)
       \/ WriteReturns(Err, env)

CallSelect ==
    \/ \E n \in 0..MaxNumber : Enter("rcall", [op |-> "select_block_hash", arg |-> <<n>>])
    \/ \E h \in BlockHashes : Enter("rcall", [op |-> "select_block_number", arg |-> <<h>>])
    \/ \E n \in 0..MaxNumber : Enter("rcall", [op |-> "select_block_by_number", arg |-> <<n>>])
    \/ \E h \in BlockHashes : Enter("rcall", [op |-> "select_block_by_hash", arg |-> <<h>>])
    \/ \E h \in UncleHashes : Enter("rcall", [op |-> "select_uncle_block", arg |-> <<h>>])
    \/ \E h \in TxHashes : Enter("rcall", [op |-> "select_transaction", arg |-> <<h>>])
    \/ \E h \in TxHashes, j \in 0..(MaxOutputs - 1) :
          Enter("rcall", [op |-> "select_cell_output", arg |-> <<h, j>>])
    \/ \E h \in TxHashes, j \in 0..(MaxOutputs - 1) :
          Enter("rcall", [op |-> "select_cell_status", arg |-> <<h, j>>])
    \/ Enter("rcall", [op |-> "select_max_number", arg |-> <<>>])
    \/ \E key \in CustomKeys : Enter("rcall", [op |-> "select", arg |-> <<key>>])

\* handler.read()?
BeginRead ==
    /\ txn.rcall # None
    /\ txn.reader = None
    /\ \/ /\ txn' = [txn EXCEPT !.reader = Some([snap |-> Snapshot(env, txn.writer)])]
          /\ UNCHANGED <<env, last, nops, codec_in, codec_out, codec_dec, opened, tcp, retry>>
       \/ ReadReturns(Err)

\* the callback of a read on the stores e
Callback(e, op, arg) ==
    CASE op = "select_block_hash" -> select_block_hash(e, arg[1])
      [] op = "select_block_number" -> select_block_number(e, arg[1])
      [] op = "select_block_by_number" -> select_block_by_number(e, arg[1])
      [] op = "select_block_by_hash" -> select_block_by_hash(e, arg[1])
      [] op = "select_uncle_block" -> select_uncle_block(e, arg[1])
      [] op = "select_transaction" -> select_transaction(e, arg[1])
      [] op = "select_cell_output" -> select_cell_output(e, arg[1], arg[2])
      [] op = "select_cell_status" -> select_cell_status(e, arg[1], arg[2])
      [] op = "select_max_number" -> select_max_number(e)
      [] op = "select" -> select(e, arg[1])

\* the whole lookup chain runs on the Reader, then the read returns
ReturnRead ==
    /\ txn.reader # None
    /\ \E r \in {Callback(txn.reader[1].snap, txn.rcall[1].op, txn.rcall[1].arg)} :
          ReadReturns(r)

ConcNext ==
    \/ CallInsertBlock
    \/ CallInsert
    \/ BeginWrite
    \/ StepWrite
    \/ CommitWrite
    \/ CallSelect
    \/ BeginRead
    \/ ReturnRead

SpecConc == ConcInit /\ [][ConcNext]_vars

\* the stores e hold an index entry and a buffer entry for number n
HasBlock(e, n) ==
    /\ number_bytes(n) \in DOMAIN e.indexes
    /\ number_bytes(n) \in DOMAIN e.blocks

\* the stores e show no block in part: every transaction location, uncle
\* location and hash -> number entry leads to an index and a buffer, and no
\* output is live without a max-number
Whole(e) ==
    /\ \A k \in DOMAIN e.txs : HasBlock(e, Index_from_slice(e.txs[k].v).val.number)
    /\ \A k \in DOMAIN e.uncles : HasBlock(e, Index_from_slice(e.uncles[k].v).val.number)
    /\ \A k \in DOMAIN e.numbers : HasBlock(e, e.numbers[k].n)
    /\ DOMAIN e.cells # {} => MaxNumberKey \in DOMAIN e.status

\* C19: a read running while an insert_block is in progress observes none or
\* all of the block's records: what its Reader sees never holds a
\* transaction location, uncle location or hash -> number entry without the
\* index and buffer of that number, nor a live output without a max-number,
\* and it is never the unfinished work of the open Writer.
C19_ReadsSeeWholeBlocks ==
    txn.reader # None =>
        /\ Whole(txn.reader[1].snap)
        /\ txn.writer # None /\ txn.writer[1].w # env => txn.reader[1].snap # txn.writer[1].w

\* a Reader is open on the committed stores while the Writer of an
\* insert_block has made all its puts and has not committed
C19_Witness ==
    /\ txn.reader # None
    /\ txn.writer # None
    /\ txn.wcall[1].op = "insert_block"
    /\ txn.writer[1].k > Len(txn.wcall[1].ops)
    /\ txn.reader[1].snap = env
    /\ env # NoStores
    /\ DOMAIN txn.writer[1].w.indexes # DOMAIN env.indexes
    /\ txn.writer[1].w # env

WriteNames == {"insert_block", "insert"}

\* C20: when a storage call returns, Ok or Err, the transaction it opened is
\* no longer open, and a write that did not return Ok has left the stores as
\* they were: its Writer was aborted.
C20_ReleasedOnReturn ==
    [][nops' = nops + 1 =>
          IF last'.op \in WriteNames
          THEN /\ txn'.wcall = None
               /\ txn'.writer = None
               /\ last'.res.st # "Ok" => env' = env
          ELSE /\ txn'.rcall = None
               /\ txn'.reader = None]_vars

\* an insert_block whose Writer had made puts returned Err while a Reader of
\* the other thread is open: no Writer is open and the stores hold nothing
\* of the block
C20_Witness ==
    /\ last.op = "insert_block"
    /\ last.res = Err
    /\ txn.wcall = None
    /\ txn.writer = None
    /\ txn.reader # None
    /\ env = NoStores

\* the step is the return of the call op with result Ok
ReturnsOk(op) ==
    /\ nops' = nops + 1
    /\ last'.op = op
    /\ last'.res.st = "Ok"

\* C22: a successful insert(k, v) stores v under k and touches no other
\* key, nothing but a successful insert changes what is stored, and
\* select(k) returns the value stored under k, Ok(None) when there is none:
\* select(k) returns Some(v) from the insert of v until the next insert on k.
C22_SelectReturnsLastInsert ==
    [][/\ ReturnsOk("insert") =>
              env'.custom = put(env.custom, last'.arg[1], Blob(last'.arg[2]))
       /\ ~ReturnsOk("insert") => env'.custom = env.custom
       /\ nops' = nops + 1 /\ last'.op = "select" =>
              last'.res = IF last'.arg[1] \in DOMAIN env.custom
                          THEN Ok(Some(env.custom[last'.arg[1]].v))
                          ELSE Ok(None)]_vars

\* select(k) returned the value inserted by the call before it
C22_Witness ==
    /\ nops = 2
    /\ last.op = "select"
    /\ last.res = Ok(Some(<<5>>))
    /\ env.custom[last.arg[1]] = Blob(<<5>>)

\* the results of the block-related reads on the stores e
BlockReads(e) ==
    <<[n \in 0..MaxNumber |-> select_block_hash(e, n)],
      [h \in BlockHashes |-> select_block_number(e, h)],
      [n \in 0..MaxNumber |-> select_block_by_number(e, n)],
      [h \in BlockHashes |-> select_block_by_hash(e, h)],
      [h \in UncleHashes |-> select_uncle_block(e, h)],
      [h \in TxHashes |-> select_transaction(e, h)],
      [h \in TxHashes |-> [j \in 0..(MaxOutputs - 1) |-> select_cell_output(e, h, j)]],
      [h \in TxHashes |-> [j \in 0..MaxOutputs |-> select_cell_status(e, h, j)]],
      select_max_number(e)>>

\* C23: an insert(k, v), whatever the key, changes no store but custom and
\* no result of a block-related read; an insert_block changes neither the
\* custom store nor the result of any select(k).
C23_CustomIsApart ==
    [][/\ nops' = nops + 1 /\ last'.op = "insert" =>
              /\ [env' EXCEPT !.custom = NoTable] = [env EXCEPT !.custom = NoTable]
              /\ BlockReads(env') = BlockReads(env)
       /\ nops' = nops + 1 /\ last'.op = "insert_block" =>
              /\ env'.custom = env.custom
              /\ \A key \in CustomKeys : select(env', key) = select(env, key)]_vars

\* after an insert_block, an insert under the key "max-number" succeeded and
\* the max-number is still the block's number
C23_Witness ==
    /\ nops = 2
    /\ last.op = "insert"
    /\ last.res.st = "Ok"
    /\ last.arg[1] = MaxNumberKey
    /\ select_max_number(env).st = "Ok"
    /\ select_max_number(env).val # None
    /\ DOMAIN env.custom = {MaxNumberKey}

ReadNames ==
    {"select_block_hash", "select_block_number", "select_block_by_number",
     "select_block_by_hash", "select_uncle_block", "select_transaction",
     "select_cell_output", "select_cell_status", "select_max_number", "select"}

----------------------------------------------------------------------------
(* The keys and locations of the stores, built for numbers, slots and      *)
(* indices over the whole range of the integers at hand, next to the       *)
(* two calls that build live-cell keys.                                    *)

KeyNumbers == {0, 1, 255, 256, 65536, 16777216, 2147483647}

\* Index::new(number, index).into_bytes() and Index::from_slice on the result
IndexRoundTrip ==
    /\ nops < MaxOps
    /\ \E number \in KeyNumbers, index \in KeyNumbers :
          \E bytes \in {Index_into_bytes(number, index)} :
              Return("Index", <<number, index>>,
                     [bytes |-> bytes, back |-> Index_from_slice(bytes)], env)

\* CellIndex::new(tx_hash, index).into_bytes()
CellKey ==
    /\ nops < MaxOps
    /\ \E tx_hash \in TxHashes, index \in KeyNumbers :
          Return("CellIndex", <<tx_hash, index>>,
                 [bytes |-> CellIndex_into_bytes(tx_hash, index)], env)

KeysNext ==
    \/ IndexRoundTrip
    \/ CellKey
    \/ InsertBlock
    \/ SelectCellStatus

SpecKeys == Init /\ [][KeysNext]_vars

\* byte k, counted from 1 at the least significant end, of the number n
RECURSIVE ByteOf(_, _)
ByteOf(n, k) == IF k = 1 THEN n % 256 ELSE ByteOf(n \div 256, k - 1)

\* the hash in 32 bytes, then the index in 4 bytes, least significant first
ExpectedCellKey(tx_hash, index) ==
    [k \in 1..(HashLen + U32Len) |->
        IF k <= HashLen THEN ByteOf(tx_hash, k) ELSE ByteOf(index, k - HashLen)]

\* C25: a location is 16 bytes, the number in bytes 0..8 and the slot in
\* bytes 8..16, least significant byte first, and Index::from_slice gives
\* back the number and slot Index::into_bytes was given; a live-cell key is
\* the 32 bytes of the hash followed by the index in 4 bytes, least
\* significant first; the keys insert_block stores are of that form and
\* select_cell_status answers by that key.
C25_KeyLayout ==
    /\ last.op = "Index" =>
          /\ Len(last.res.bytes) = 16
          /\ \A k \in 1..8 :
                /\ last.res.bytes[k] = ByteOf(last.arg[1], k)
                /\ last.res.bytes[8 + k] = ByteOf(last.arg[2], k)
          /\ last.res.back = Ok([number |-> last.arg[1], index |-> last.arg[2]])
    /\ last.op = "CellIndex" =>
          last.res.bytes = ExpectedCellKey(last.arg[1], last.arg[2])
    /\ DOMAIN env.cells \subseteq
          {ExpectedCellKey(h, j) : h \in TxHashes, j \in 0..MaxOutputs}
    /\ last.op = "select_cell_status" =>
          last.res = IF ExpectedCellKey(last.arg[1], last.arg[2]) \in DOMAIN env.cells
                     THEN Ok(Some(<<>>)) ELSE Ok(None)

\* a location was built and read back for a number and a slot of more than
\* three bytes
C25_Witness ==
    /\ last.op = "Index"
    /\ last.arg = <<2147483647, 16777216>>
    /\ last.res.back.st = "Ok"
    /\ DOMAIN env.cells # {}

\* the live keys left when the keys cs are deleted one by one from the
\* live keys, or no answer when one of them is not live at its turn
RECURSIVE DeleteAll(_, _)
DeleteAll(live, cs) ==
    IF cs = <<>> THEN Some(live)
    ELSE IF Head(cs) \notin live THEN None
    ELSE DeleteAll(live \ {Head(cs)}, Tail(cs))

\* the live keys after the transactions txs, each deleting the cells of its
\* inputs and then adding its outputs; no answer when a delete meets a cell
\* that is not live
RECURSIVE LiveAfter(_, _)
LiveAfter(live, txs) ==
    IF txs = <<>> THEN Some(live)
    ELSE \* the choice only names the one element of the set
         CHOOSE r \in {IF d = None THEN None
                       ELSE LiveAfter(d[1] \cup {OutputCells(Head(txs))[j] :
                                                    j \in DOMAIN OutputCells(Head(txs))},
                                      Tail(txs)) :
                           d \in {DeleteAll(live, InputCells(Head(txs)))}} : TRUE

\* the blocks tried on every reachable store: one per sequence of
\* transactions
SpendBlocks ==
    {b \in StorageBlocks :
        b.header.hash = 1 /\ b.header.inner.number = 0 /\ b.uncles = <<>>}

SlotsAt(e, loc, field) ==
    Len(fetch_block(e, loc.number).val[1].index[field])

\* C27: every (number, slot) stored  in the transactions or uncles store
\* names a slot of the index now stored at that number, so that
\* select_transaction and select_uncle_block never index past its end; also
\* after a number was inserted again with fewer transactions or uncles.
C27_SlotsExist ==
    /\ \A k \in DOMAIN env.txs :
          \E loc \in {Index_from_slice(env.txs[k].v).val} :
              loc.index < SlotsAt(env, loc, "transactions")
    /\ \A k \in DOMAIN env.uncles :
          \E loc \in {Index_from_slice(env.uncles[k].v).val} :
              loc.index < SlotsAt(env, loc, "uncles")
    /\ \A h \in TxHashes : select_transaction(env, h).st # "Panic"
    /\ \A h \in UncleHashes : select_uncle_block(env, h).st # "Panic"

\* C28: the indexes, blocks and hashes stores have the same keys; every
\* number stored in the numbers store or inside a transaction or uncle
\* location is a key of the indexes store; and select_block_by_hash(h)
\* returns what select_block_by_number(n) returns whenever
\* select_block_number(h) returns Some(n).
C28_KeySetsAgree ==
    /\ DOMAIN env.indexes = DOMAIN env.blocks
    /\ DOMAIN env.blocks = DOMAIN env.hashes
    /\ \A k \in DOMAIN env.numbers : number_bytes(env.numbers[k].n) \in DOMAIN env.indexes
    /\ \A k \in DOMAIN env.txs :
          number_bytes(Index_from_slice(env.txs[k].v).val.number) \in DOMAIN env.indexes
    /\ \A k \in DOMAIN env.uncles :
          number_bytes(Index_from_slice(env.uncles[k].v).val.number) \in DOMAIN env.indexes
    /\ \A h \in BlockHashes :
          \E n \in {select_block_number(env, h)} :
              n.st = "Ok" /\ n.val # None
                  => select_block_by_hash(env, h) = select_block_by_number(env, n.val[1])

\* two blocks are stored under two numbers and two hashes, with uncle and
\* transaction locations
C28_Witness ==
    /\ InsertedOk
    /\ DOMAIN env.indexes = {number_bytes(0), number_bytes(1)}
    /\ DOMAIN env.numbers = {as_bytes(1), as_bytes(2)}
    /\ DOMAIN env.txs # {}
    /\ DOMAIN env.uncles # {}

----------------------------------------------------------------------------
(* CkbClient::until_ok.  An attempt is one block_on of a clone of the      *)
(* future; it comes back with Ok or with an error.  runs lists the         *)
(* outcomes of the attempts made so far.                                   *)

MaxLimit == 6
MaxInterval == 1

\* a loop that goes round once more when the counter has reached the limit
Continues_inclusive(cnt, limit_times) == cnt <= limit_times

\* while cnt < limit_times
Continues(cnt, limit_times) == cnt < limit_times

\* until_ok(future, limit_times, interval_secs) is entered: cnt = 0
RetryInit ==
    /\ env = NoStores
    /\ last = NoOp
    /\ nops = 0
    /\ txn = NoTxn
    /\ CodecIdle
    /\ opened = NoOpened
    /\ tcp = NoTcp
    /\ \E limit_times \in 0..MaxLimit, interval_secs \in 0..MaxInterval :
          retry = [pc |-> "loop", limit_times |-> limit_times,
                   interval_secs |-> interval_secs, cnt |-> 0, runs |-> <<>>,
                   result |-> None]

RetryUnchanged ==
    UNCHANGED <<env, last, nops, codec_in, codec_out, codec_dec, txn, opened, tcp>>

\* one turn of the loop: block_on(future.clone()); Ok(r) is returned at
\* once, r standing for the number of the attempt that gave it; an error
\* adds one to cnt
Attempt ==
    /\ retry.pc = "loop"
    /\ Continues(retry.cnt, retry.limit_times)
    /\ \E outcome \in {"Ok", "Err"} :
          retry' = IF outcome = "Ok"
                   THEN [retry EXCEPT !.runs = Append(@, outcome),
                                      !.pc = "done",
                                      !.result = Some([st |-> "Ok", val |-> Len(retry.runs) + 1])]
                   ELSE [retry EXCEPT !.runs = Append(@, outcome),
                                      !.cnt = @ + 1,
                                      !.pc = "sleep"]
    /\ RetryUnchanged

\* thread::sleep(wait_secs); continue
Sleep ==
    /\ retry.pc = "sleep"
    /\ retry' = [retry EXCEPT !.pc = "loop"]
    /\ RetryUnchanged

\* the loop is left: Err(Error::custom("waiting too long"))
GiveUp ==
    /\ retry.pc = "loop"
    /\ ~Continues(retry.cnt, retry.limit_times)
    /\ retry' = [retry EXCEPT !.pc = "done",
                              !.result = Some([st |-> "Err", val |-> "waiting too long"])]
    /\ RetryUnchanged

RetryNext ==
    \/ Attempt
    \/ Sleep
    \/ GiveUp

\* the calling thread keeps running, and every attempt comes back
SpecRetry == RetryInit /\ [][RetryNext]_vars /\ WF_vars(RetryNext)

AllFailed == \A k \in DOMAIN retry.runs : retry.runs[k] = "Err"

\* C30: until_ok makes at most limit_times attempts and returns: Ok with
\* the result of the first attempt that gave Ok, no attempt being made after
\* it, or the error "waiting too long" exactly when limit_times attempts
\* were made and all failed (none at all for limit_times = 0).
C30_UntilOkTerminates ==
    /\ [](/\ Len(retry.runs) <= retry.limit_times
          /\ \A k \in DOMAIN retry.runs : retry.runs[k] = "Ok" => k = Len(retry.runs)
          /\ retry.pc = "done" =>
                IF AllFailed
                THEN /\ Len(retry.runs) = retry.limit_times
                     /\ retry.result = Some([st |-> "Err", val |-> "waiting too long"])
                ELSE retry.result = Some([st |-> "Ok", val |-> Len(retry.runs)]))
    /\ <>(retry.pc = "done")

\* until_ok returned Ok from its third attempt, two attempts short of the limit
C30_Witness ==
    /\ retry.pc = "done"
    /\ retry.limit_times = 5
    /\ retry.runs = <<"Err", "Err", "Ok">>
    /\ retry.result = Some([st |-> "Ok", val |-> 3])

----------------------------------------------------------------------------
(* Storage::initial.  rkv's Manager is one per process; it maps a path to  *)
(* the environment opened on it.  get_or_create runs under the Manager's   *)
(* write lock, so it is one step; the nine open_single calls that follow   *)
(* are a second step, and calls of initial from several threads interleave *)
(* between the two.  An environment is known by its place in envs.         *)

MaxStorages == 3
Paths == {"a", "b"}

\* a Manager that builds an environment at every call
get_or_create_always_new(o, path) ==
    [o EXCEPT !.manager = put(@, path, Len(o.envs) + 1),
              !.envs = Append(@, NoStores),
              !.pending = Append(@, [path |-> path, handle |-> Len(o.envs) + 1])]

\* Manager::get_or_create(path, build_env): the environment already opened
\* on the path, or a new one that the Manager keeps
get_or_create(o, path) ==
    IF path \in DOMAIN o.manager
    THEN [o EXCEPT !.pending = Append(@, [path |-> path, handle |-> o.manager[path]])]
    ELSE [o EXCEPT !.manager = put(@, path, Len(o.envs) + 1),
                   !.envs = Append(@, NoStores),
                   !.pending = Append(@, [path |-> path, handle |-> Len(o.envs) + 1])]

\* the blocks inserted through the Storage values
OpenBlocks ==
    {b \in StorageBlocks :
        /\ b.uncles = <<>>
        /\ Len(b.transactions) = 1
        /\ b.transactions[1].hash = 1
        /\ b.header.hash = b.header.inner.number + 1}

OpenInit ==
    /\ StorageInit
    /\ CodecIdle

OpenUnchanged ==
    UNCHANGED <<env, codec_in, codec_out, codec_dec, txn, tcp, retry>>

\* Storage::initial up to get_or_create
InitialBegin ==
    /\ Len(opened.storages) + Len(opened.pending) < MaxStorages
    /\ \E path \in Paths : opened' = get_or_create(opened, path)
    /\ UNCHANGED <<last, nops>>
    /\ OpenUnchanged

\* the nine open_single calls and Ok(Self { .. }) of one of the calls
InitialEnd ==
    /\ \E i \in DOMAIN opened.pending :
          opened' = [opened EXCEPT
                        !.storages = Append(@, opened.pending[i]),
                        !.pending = SubSeq(@, 1, i - 1) \o SubSeq(@, i + 1, Len(@))]
    /\ UNCHANGED <<last, nops>>
    /\ OpenUnchanged

\* insert_block through one of the Storage values
OpenInsertBlock ==
    /\ nops < MaxOps
    /\ \E s \in DOMAIN opened.storages, block \in OpenBlocks, fail \in 0..1 :
          \E r \in {insert_prepared(opened.envs[opened.storages[s].handle],
                                    Prepared[block], fail)} :
              /\ opened' = [opened EXCEPT !.envs[opened.storages[s].handle] = r.env]
              /\ last' = [op |-> "insert_block", arg |-> <<s, block>>,
                          res |-> [st |-> r.st, val |-> <<>>]]
    /\ nops' = nops + 1
    /\ OpenUnchanged

\* select_block_by_number through one of the Storage values
OpenSelect ==
    /\ nops < MaxOps
    /\ \E s \in DOMAIN opened.storages, n \in 0..MaxNumber :
          last' = [op |-> "select_block_by_number", arg |-> <<s, n>>,
                   res |-> select_block_by_number(
                               opened.envs[opened.storages[s].handle], n)]
    /\ nops' = nops + 1
    /\ UNCHANGED opened
    /\ OpenUnchanged

OpenNext ==
    \/ InitialBegin
    \/ InitialEnd
    \/ OpenInsertBlock
    \/ OpenSelect

SpecOpen == OpenInit /\ [][OpenNext]_vars

\* C21: whatever the order and interleaving of the Storage::initial calls,
\* one environment is created for each path opened, every Storage value of a
\* path holds that environment, and a block inserted through one of them is
\* read through each of them.
C21_OneEnvironmentPerPath ==
    /\ Len(opened.envs) = Cardinality(DOMAIN opened.manager)
    /\ \A k \in DOMAIN opened.pending :
          opened.pending[k].handle = opened.manager[opened.pending[k].path]
    /\ \A k \in DOMAIN opened.storages :
          opened.storages[k].handle = opened.manager[opened.storages[k].path]
    /\ last.op = "insert_block" /\ last.res.st = "Ok" =>
          \A t \in DOMAIN opened.storages :
              opened.storages[t].path = opened.storages[last.arg[1]].path =>
                  select_block_by_number(opened.envs[opened.storages[t].handle],
                                         last.arg[2].header.inner.number)
                      = Ok(Some(last.arg[2]))

\* a block was inserted through the first of two Storage values of one path,
\* the second opened by a call that began before the first call ended
C21_Witness ==
    /\ Len(opened.storages) = 3
    /\ opened.storages[1].path = opened.storages[2].path
    /\ opened.storages[3].path # opened.storages[1].path
    /\ last.op = "insert_block"
    /\ last.res.st = "Ok"
    /\ last.arg[1] = 1

----------------------------------------------------------------------------
(* TcpClient::subscribe and Drop for TcpClient.  A subscription is a task  *)
(* spawned on the runtime and the Sender of a channel of capacity 1 whose  *)
(* Receiver the task holds.  A task is known by its place in tcp.tasks:    *)
(*   alive   the task has not left its loop                                *)
(*   msg     a () is waiting in its channel                                *)
(*   sender  the Sender of its channel has not been dropped                *)
(*   late    it has handled a message while recv() was ready               *)
(* receiver.recv() is ready when a () is waiting or the Sender is gone.    *)
(* subscribe takes &self, so two threads may be inside it at once; drop    *)
(* takes &mut self, so no call is in progress when it runs.                *)

MaxTasks == 3
Threads == {1, 2}
Topics == {"NewTipHeader", "NewTipBlock"}

NoCalls == [t \in Threads |-> None]

TcpInit ==
    /\ env = NoStores
    /\ last = NoOp
    /\ nops = 0
    /\ txn = NoTxn
    /\ CodecIdle
    /\ opened = NoOpened
    /\ retry = NoRetry
    /\ tcp = [sess |-> {}, calls |-> NoCalls, tasks |-> <<>>, dropped |-> FALSE]

TcpUnchanged ==
    UNCHANGED <<env, nops, codec_in, codec_out, codec_dec, txn, opened, retry>>

\* the tasks whose Sender the map holds for a topic
Registered(sess, topic) == {e.task : e \in {e \in sess : e.topic = topic}}

\* an insert that leaves the entry it finds for the topic in the map
sess_insert_keeping(sess, topic, task) == sess \cup {[topic |-> topic, task |-> task]}

\* HashMap::insert(topic, sender): the entry of the topic is replaced
sess_insert(sess, topic, task) ==
    {e \in sess : e.topic # topic} \cup {[topic |-> topic, task |-> task]}

\* the Senders of the tasks ks are dropped
DropSenders(tasks, ks) ==
    [k \in DOMAIN tasks |-> IF k \in ks THEN [tasks[k] EXCEPT !.sender = FALSE] ELSE tasks[k]]

\* subscribe returns res to the thread t
SubscribeReturns(t, res, sess, tasks) ==
    /\ tcp' = [tcp EXCEPT !.calls[t] = None, !.sess = sess, !.tasks = tasks]
    /\ last' = [op |-> "subscribe", arg |-> <<t, tcp.calls[t][1].topic>>, res |-> res]

\* self.sess.write().remove(&topic)
SubscribeRemove ==
    /\ ~tcp.dropped
    /\ Len(tcp.tasks) + Cardinality({t \in Threads : tcp.calls[t] # None}) < MaxTasks
    /\ \E t \in Threads, topic \in Topics :
          /\ tcp.calls[t] = None
          /\ IF Registered(tcp.sess, topic) = {}
             THEN tcp' = [tcp EXCEPT !.calls[t] =
                              Some([topic |-> topic, pc |-> "request", old |-> 0, new |-> 0])]
             ELSE \E k \in Registered(tcp.sess, topic) :
                      tcp' = [tcp EXCEPT
                                 !.sess = {e \in @ : e.topic # topic},
                                 !.calls[t] = Some([topic |-> topic, pc |-> "send",
                                                    old |-> k, new |-> 0])]
    /\ UNCHANGED last
    /\ TcpUnchanged

\* rt.block_on(sender.send(())) on the Sender taken from the map, which is
\* dropped at the end of the if-let; the send fails when the task has left
\* its loop and dropped the Receiver
SubscribeSend ==
    /\ \E t \in Threads :
          /\ tcp.calls[t] # None
          /\ tcp.calls[t][1].pc = "send"
          /\ \E k \in {tcp.calls[t][1].old} :
                IF tcp.tasks[k].alive
                THEN /\ tcp' = [tcp EXCEPT !.tasks[k].msg = TRUE,
                                           !.tasks[k].sender = FALSE,
                                           !.calls[t][1].pc = "request"]
                     /\ UNCHANGED last
                ELSE SubscribeReturns(t, Err, tcp.sess, DropSenders(tcp.tasks, {k}))
    /\ TcpUnchanged

\* rt.block_on_01(fut_subscribe): the server accepts or the request fails
SubscribeRequest ==
    /\ \E t \in Threads :
          /\ tcp.calls[t] # None
          /\ tcp.calls[t][1].pc = "request"
          /\ \/ /\ tcp' = [tcp EXCEPT !.calls[t][1].pc = "spawn"]
                /\ UNCHANGED last
             \/ SubscribeReturns(t, Err, tcp.sess, tcp.tasks)
    /\ TcpUnchanged

\* mpsc::channel(1) and rt.spawn(fut)
SubscribeSpawn ==
    /\ \E t \in Threads :
          /\ tcp.calls[t] # None
          /\ tcp.calls[t][1].pc = "spawn"
          /\ tcp' = [tcp EXCEPT
                        !.tasks = Append(@, [topic |-> tcp.calls[t][1].topic, alive |-> TRUE,
                                             msg |-> FALSE, sender |-> TRUE, late |-> FALSE]),
                        !.calls[t][1].pc = "insert",
                        !.calls[t][1].new = Len(tcp.tasks) + 1]
    /\ UNCHANGED last
    /\ TcpUnchanged

\* self.sess.write().insert(topic, sender); Ok(()): a Sender the insert
\* replaces is dropped
SubscribeInsert ==
    /\ \E t \in Threads :
          /\ tcp.calls[t] # None
          /\ tcp.calls[t][1].pc = "insert"
          /\ \E c \in {tcp.calls[t][1]} :
                SubscribeReturns(t, Ok(<<>>), sess_insert(tcp.sess, c.topic, c.new),
                                 DropSenders(tcp.tasks, Registered(tcp.sess, c.topic)))
    /\ TcpUnchanged

RecvReady(task) == task.msg \/ ~task.sender

\* select! takes the branch of receiver.recv(): break
TaskStop ==
    /\ \E k \in DOMAIN tcp.tasks :
          /\ tcp.tasks[k].alive
          /\ RecvReady(tcp.tasks[k])
          /\ tcp' = [tcp EXCEPT !.tasks[k].alive = FALSE]
    /\ UNCHANGED last
    /\ TcpUnchanged

\* select! takes the branch of stream.next(): the callback handles a
\* message, or the callback or the stream fails and the task breaks
TaskMessage ==
    /\ \E k \in DOMAIN tcp.tasks :
          /\ tcp.tasks[k].alive
          /\ \/ tcp' = [tcp EXCEPT !.tasks[k].late = @ \/ RecvReady(tcp.tasks[k])]
             \/ tcp' = [tcp EXCEPT !.tasks[k].alive = FALSE]
    /\ UNCHANGED last
    /\ TcpUnchanged

\* Drop for TcpClient: the map is drained; the future of each send is
\* dropped without being polled, and each Sender is dropped with it
DropClient ==
    /\ ~tcp.dropped
    /\ tcp.calls = NoCalls
    /\ tcp' = [tcp EXCEPT !.sess = {},
                          !.tasks = DropSenders(@, {e.task : e \in tcp.sess}),
                          !.dropped = TRUE]
    /\ last' = [op |-> "drop", arg |-> <<>>, res |-> Ok(<<>>)]
    /\ TcpUnchanged

TcpNext ==
    \/ SubscribeRemove
    \/ SubscribeSend
    \/ SubscribeRequest
    \/ SubscribeSpawn
    \/ SubscribeInsert
    \/ TaskStop
    \/ TaskMessage
    \/ DropClient

\* select! polls its branches in random order, so a recv() that stays
\* ready is taken in the end
SpecTcp == TcpInit /\ [][TcpNext]_vars /\ WF_vars(TaskStop)

\* the tasks of a topic that have not left their loop and have no stop
\* waiting for them
Receiving(topic) ==
    {k \in DOMAIN tcp.tasks :
        /\ tcp.tasks[k].topic = topic
        /\ tcp.tasks[k].alive
        /\ ~RecvReady(tcp.tasks[k])}

CallsOn(topic) ==
    {t \in Threads : tcp.calls[t] # None /\ tcp.calls[t][1].topic = topic}

TcpSafe ==
    /\ \A topic \in Topics :
          /\ Cardinality(Registered(tcp.sess, topic)) <= 1
          /\ CallsOn(topic) = {} =>
                /\ Cardinality(Receiving(topic)) <= 1
                /\ Receiving(topic) \subseteq Registered(tcp.sess, topic)
    /\ \A t \in Threads :
          tcp.calls[t] # None /\ tcp.calls[t][1].old # 0 /\ tcp.calls[t][1].pc # "send" =>
              /\ tcp.calls[t][1].old \notin Registered(tcp.sess, tcp.calls[t][1].topic)
              /\ tcp.tasks[tcp.calls[t][1].old].msg
    /\ tcp.dropped =>
          /\ tcp.sess = {}
          /\ \A topic \in Topics : Receiving(topic) = {}

StopWaits(k) ==
    /\ k \in DOMAIN tcp.tasks
    /\ tcp.tasks[k].alive
    /\ RecvReady(tcp.tasks[k])

Stopped(k) == k \in DOMAIN tcp.tasks /\ ~tcp.tasks[k].alive

\* C29: the session map holds at most one Sender per topic; a subscribe
\* that finds an entry for its topic has removed it and sent its task the
\* stop before it requests the new subscription; when no subscribe on a
\* topic is in progress at most one task of the topic, the registered one,
\* is without a stop waiting for it; after the client is dropped no task is;
\* and a task with a stop waiting for it leaves its loop.
C29_OneSubscriptionPerTopic ==
    /\ []TcpSafe
    /\ \A k \in 1..MaxTasks : StopWaits(k) ~> Stopped(k)

\* a subscribe returned Ok while the task it replaced, the stop waiting in
\* its channel, had handled one more message and was still in its loop
C29_Witness ==
    /\ last.op = "subscribe"
    /\ last.res.st = "Ok"
    /\ tcp.calls = NoCalls
    /\ Len(tcp.tasks) >= 2
    /\ tcp.tasks[1].alive /\ tcp.tasks[1].msg /\ tcp.tasks[1].late
    /\ tcp.tasks[2].topic = tcp.tasks[1].topic
    /\ Registered(tcp.sess, tcp.tasks[1].topic) = {2}

====
